---- MODULE Spec2Model ----
(***************************************************************************)
(* Model of the Tauri commands of musicViz.  src-tauri/src/govee.rs, the   *)
(* Govee LAN client: the device registry, the discovery engine, the        *)
(* response parser and the command sender, as they run when several        *)
(* callers invoke the commands against one shared GoveeState.              *)
(* src-tauri/src/spotify_auth.rs: the PKCE code verifier and the token     *)
(* store with its keyring and file persistence.                            *)
(***************************************************************************)
EXTENDS Bags, FiniteSets, Integers, Sequences, TLC

(***************************************************************************)
(* Bounds of the model.                                                    *)
(***************************************************************************)
\* datagrams the network delivers to the sockets of the program, in total
MaxDatagrams == 2

\* the callers that may have a command in progress at the same time
Callers == {1, 2}

(***************************************************************************)
(* Time is counted in milliseconds and passes in steps of one second.      *)
(***************************************************************************)
\* the timeout argument of govee_discover_devices (u32, in ms)
Timeouts == {0, 2000}
\* Duration::from_secs(2), the read timeout of govee_send_lan_command, in ms
CmdTimeoutMs == 2000

(***************************************************************************)
(* Option<T>.                                                              *)
(***************************************************************************)
None == [t |-> "None"]
Some(x) == [t |-> "Some", v |-> x]
IsSome(o) == o.t = "Some"
UnwrapOr(o, d) == IF o.t = "Some" THEN o.v ELSE d

(***************************************************************************)
(* serde_json::Value.  A value is a record tagged with its JSON type; an   *)
(* object carries a function from its keys to values.  A number is an      *)
(* integer ("int") or a number with a fraction or exponent ("float", of    *)
(* which only the text matters here: as_u64, as_i64 give None for it).     *)
(***************************************************************************)
JNull == [t |-> "null"]
JBool(b) == [t |-> "bool", v |-> b]
JInt(n) == [t |-> "int", v |-> n]
JFloat(s) == [t |-> "float", v |-> s]
JStr(s) == [t |-> "str", v |-> s]
JObj(f) == [t |-> "obj", v |-> f]

\* Value::get(key): the member of an object, None for a missing key and for
\* every value that is not an object
Get(val, key) ==
    IF val.t = "obj"
    THEN IF key \in DOMAIN val.v THEN Some(val.v[key]) ELSE None
    ELSE None

\* opt.and_then(|v| v.as_str())
AsStr(opt) == IF opt.t = "Some" THEN (IF opt.v.t = "str" THEN Some(opt.v.v) ELSE None) ELSE None
\* opt.and_then(|v| v.as_u64()): integers that are not negative
AsU64(opt) ==
    IF opt.t = "Some"
    THEN IF opt.v.t = "int" THEN (IF opt.v.v >= 0 THEN Some(opt.v.v) ELSE None) ELSE None
    ELSE None
\* opt.and_then(|v| v.as_i64())
AsI64(opt) == IF opt.t = "Some" THEN (IF opt.v.t = "int" THEN Some(opt.v.v) ELSE None) ELSE None
\* opt.and_then(|v| v.as_bool())
AsBool(opt) == IF opt.t = "Some" THEN (IF opt.v.t = "bool" THEN Some(opt.v.v) ELSE None) ELSE None

\* the casts `as u8` and `as u16` of a u64
AsU8(n) == n % 256
AsU16(n) == n % 65536

(***************************************************************************)
(* parse_color                                                             *)
(***************************************************************************)
\* parse_color that takes the colour as a whole: when a channel is missing
\* the colour is white
parse_colorWhole(color_value) ==
    IF color_value.t = "Some"
          /\ IsSome(AsU64(Get(color_value.v, "r")))
          /\ IsSome(AsU64(Get(color_value.v, "g")))
          /\ IsSome(AsU64(Get(color_value.v, "b")))
    THEN [r |-> AsU8(AsU64(Get(color_value.v, "r")).v),
          g |-> AsU8(AsU64(Get(color_value.v, "g")).v),
          b |-> AsU8(AsU64(Get(color_value.v, "b")).v)]
    ELSE [r |-> 255, g |-> 255, b |-> 255]

parse_color(color_value) ==
    IF color_value.t = "Some"
    THEN [r |-> AsU8(UnwrapOr(AsU64(Get(color_value.v, "r")), 255)),
          g |-> AsU8(UnwrapOr(AsU64(Get(color_value.v, "g")), 255)),
          b |-> AsU8(UnwrapOr(AsU64(Get(color_value.v, "b")), 255))]
    ELSE [r |-> 255, g |-> 255, b |-> 255]

(***************************************************************************)
(* parse_device_response.  src_addr is the UDP source address, a record    *)
(* [ip, port].  The result is an Option<GoveeDevice>.                      *)
(***************************************************************************)
\* ScanDevice with unwrap_or_default on the id: a response without a device
\* string yields a device with the empty id
ScanDeviceDefaultId(data, src_addr) ==
    Some([
        id |-> UnwrapOr(AsStr(Get(data, "device")), ""),
        name |-> UnwrapOr(AsStr(Get(data, "deviceName")),
                          UnwrapOr(AsStr(Get(data, "sku")), "Govee Device")),
        model |-> UnwrapOr(AsStr(Get(data, "sku")), "Unknown"),
        ip |-> UnwrapOr(AsStr(Get(data, "ip")), src_addr.ip),
        lan_api_enabled |-> TRUE,
        online |-> TRUE,
        state |-> [on |-> FALSE,
                   brightness |-> 50,
                   color |-> [r |-> 255, g |-> 255, b |-> 255],
                   color_temperature |-> 5000,
                   mode |-> "normal"],
        capabilities |-> [power_control |-> TRUE,
                          brightness_control |-> TRUE,
                          color_control |-> TRUE,
                          color_temperature_control |-> TRUE,
                          music_mode |-> TRUE]])

ScanDevice(data, src_addr) ==
    IF ~IsSome(AsStr(Get(data, "device")))
    THEN None
    ELSE Some([
        id |-> AsStr(Get(data, "device")).v,
        name |-> UnwrapOr(AsStr(Get(data, "deviceName")),
                          UnwrapOr(AsStr(Get(data, "sku")), "Govee Device")),
        model |-> UnwrapOr(AsStr(Get(data, "sku")), "Unknown"),
        ip |-> UnwrapOr(AsStr(Get(data, "ip")), src_addr.ip),
        lan_api_enabled |-> TRUE,
        online |-> TRUE,
        state |-> [on |-> FALSE,
                   brightness |-> 50,
                   color |-> [r |-> 255, g |-> 255, b |-> 255],
                   color_temperature |-> 5000,
                   mode |-> "normal"],
        capabilities |-> [power_control |-> TRUE,
                          brightness_control |-> TRUE,
                          color_control |-> TRUE,
                          color_temperature_control |-> TRUE,
                          music_mode |-> TRUE]])

\* DevStatusDevice with != 0 in the place of == 1: every onOff but 0 is on
DevStatusDeviceNonZero(data, src_addr) ==
    IF ~IsSome(AsStr(Get(data, "device")))
    THEN None
    ELSE Some([
        id |-> AsStr(Get(data, "device")).v,
        name |-> UnwrapOr(AsStr(Get(data, "deviceName")), "Unknown Device"),
        model |-> UnwrapOr(AsStr(Get(data, "sku")), "Unknown"),
        ip |-> src_addr.ip,
        lan_api_enabled |-> TRUE,
        online |-> IsSome(Get(data, "onOff")),
        state |-> [on |-> UnwrapOr(AsI64(Get(data, "onOff")), 0) # 0,
                   brightness |-> AsU8(UnwrapOr(AsU64(Get(data, "brightness")), 0)),
                   color |-> parse_color(Get(data, "color")),
                   color_temperature |->
                       AsU16(UnwrapOr(AsU64(Get(data, "colorTemInKelvin")), 5000)),
                   mode |-> UnwrapOr(AsStr(Get(data, "mode")), "normal")],
        capabilities |-> [power_control |-> TRUE,
                          brightness_control |-> TRUE,
                          color_control |-> TRUE,
                          color_temperature_control |->
                              IsSome(Get(data, "colorTemInKelvin")),
                          music_mode |-> UnwrapOr(AsBool(Get(data, "musicMode")), FALSE)]])

\* DevStatusDevice that clamps: a brightness above 255 is 255 and a colour
\* temperature above 65535 is 65535
DevStatusDeviceClamps(data, src_addr) ==
    IF ~IsSome(AsStr(Get(data, "device")))
    THEN None
    ELSE Some([
        id |-> AsStr(Get(data, "device")).v,
        name |-> UnwrapOr(AsStr(Get(data, "deviceName")), "Unknown Device"),
        model |-> UnwrapOr(AsStr(Get(data, "sku")), "Unknown"),
        ip |-> src_addr.ip,
        lan_api_enabled |-> TRUE,
        online |-> IsSome(Get(data, "onOff")),
        state |-> [on |-> UnwrapOr(AsI64(Get(data, "onOff")), 0) = 1,
                   brightness |->
                       LET n == UnwrapOr(AsU64(Get(data, "brightness")), 0)
                       IN  IF n > 255 THEN 255 ELSE n,
                   color |-> parse_color(Get(data, "color")),
                   color_temperature |->
                       LET n == UnwrapOr(AsU64(Get(data, "colorTemInKelvin")), 5000)
                       IN  IF n > 65535 THEN 65535 ELSE n,
                   mode |-> UnwrapOr(AsStr(Get(data, "mode")), "normal")],
        capabilities |-> [power_control |-> TRUE,
                          brightness_control |-> TRUE,
                          color_control |-> TRUE,
                          color_temperature_control |->
                              IsSome(Get(data, "colorTemInKelvin")),
                          music_mode |-> UnwrapOr(AsBool(Get(data, "musicMode")), FALSE)]])

\* DevStatusDevice that takes the ip as the scan arm does: data.ip when it is
\* a string
DevStatusDevicePayloadIp(data, src_addr) ==
    IF ~IsSome(AsStr(Get(data, "device")))
    THEN None
    ELSE Some([
        id |-> AsStr(Get(data, "device")).v,
        name |-> UnwrapOr(AsStr(Get(data, "deviceName")), "Unknown Device"),
        model |-> UnwrapOr(AsStr(Get(data, "sku")), "Unknown"),
        ip |-> UnwrapOr(AsStr(Get(data, "ip")), src_addr.ip),
        lan_api_enabled |-> TRUE,
        online |-> IsSome(Get(data, "onOff")),
        state |-> [on |-> UnwrapOr(AsI64(Get(data, "onOff")), 0) = 1,
                   brightness |-> AsU8(UnwrapOr(AsU64(Get(data, "brightness")), 0)),
                   color |-> parse_color(Get(data, "color")),
                   color_temperature |->
                       AsU16(UnwrapOr(AsU64(Get(data, "colorTemInKelvin")), 5000)),
                   mode |-> UnwrapOr(AsStr(Get(data, "mode")), "normal")],
        capabilities |-> [power_control |-> TRUE,
                          brightness_control |-> TRUE,
                          color_control |-> TRUE,
                          color_temperature_control |->
                              IsSome(Get(data, "colorTemInKelvin")),
                          music_mode |-> UnwrapOr(AsBool(Get(data, "musicMode")), FALSE)]])

DevStatusDevice(data, src_addr) ==
    IF ~IsSome(AsStr(Get(data, "device")))
    THEN None
    ELSE Some([
        id |-> AsStr(Get(data, "device")).v,
        name |-> UnwrapOr(AsStr(Get(data, "deviceName")), "Unknown Device"),
        model |-> UnwrapOr(AsStr(Get(data, "sku")), "Unknown"),
        ip |-> src_addr.ip,
        lan_api_enabled |-> TRUE,
        online |-> IsSome(Get(data, "onOff")),
        state |-> [on |-> UnwrapOr(AsI64(Get(data, "onOff")), 0) = 1,
                   brightness |-> AsU8(UnwrapOr(AsU64(Get(data, "brightness")), 0)),
                   color |-> parse_color(Get(data, "color")),
                   color_temperature |->
                       AsU16(UnwrapOr(AsU64(Get(data, "colorTemInKelvin")), 5000)),
                   mode |-> UnwrapOr(AsStr(Get(data, "mode")), "normal")],
        capabilities |-> [power_control |-> TRUE,
                          brightness_control |-> TRUE,
                          color_control |-> TRUE,
                          color_temperature_control |->
                              IsSome(Get(data, "colorTemInKelvin")),
                          music_mode |-> UnwrapOr(AsBool(Get(data, "musicMode")), FALSE)]])

\* parse_device_response whose default arm is the scan arm: a response with
\* another cmd is parsed as a scan response
parse_device_responseAnyCmd(response, src_addr) ==
    IF ~IsSome(Get(response, "msg")) THEN None
    ELSE LET msg == Get(response, "msg").v IN
    IF ~IsSome(AsStr(Get(msg, "cmd"))) THEN None
    ELSE LET cmd == AsStr(Get(msg, "cmd")).v IN
    IF ~IsSome(Get(msg, "data")) THEN None
    ELSE LET data == Get(msg, "data").v IN
    CASE cmd = "scan" -> ScanDevice(data, src_addr)
      [] cmd = "devStatus" -> DevStatusDevice(data, src_addr)
      [] OTHER -> ScanDevice(data, src_addr)

parse_device_response(response, src_addr) ==
    IF ~IsSome(Get(response, "msg")) THEN None
    ELSE LET msg == Get(response, "msg").v IN
    IF ~IsSome(AsStr(Get(msg, "cmd"))) THEN None
    ELSE LET cmd == AsStr(Get(msg, "cmd")).v IN
    IF ~IsSome(Get(msg, "data")) THEN None
    ELSE LET data == Get(msg, "data").v IN
    CASE cmd = "scan" -> ScanDevice(data, src_addr)
      [] cmd = "devStatus" -> DevStatusDevice(data, src_addr)
      [] OTHER -> None

(***************************************************************************)
(* Result<T, String>                                                       *)
(***************************************************************************)
Ok(x) == [ok |-> TRUE, v |-> x]
Err(e) == [ok |-> FALSE, err |-> e]

(***************************************************************************)
(* std::collections::HashMap<String, GoveeDevice>, as the bag of its       *)
(* entries [key, value].                                                   *)
(***************************************************************************)
Entry(k, val) == [key |-> k, value |-> val]

\* HashMapInsert that merges: the model of the entry stored under the key
\* survives when the new device reports none
HashMapInsertMerge(map, k, val) ==
    LET kept == {e \in BagToSet(map) : e.key # k}
        old == {e \in BagToSet(map) : e.key = k}
        merged == IF old # {} /\ val.model = "Unknown"
                  THEN [val EXCEPT !.model = (CHOOSE e \in old : TRUE).value.model]
                  ELSE val
    IN  [e \in kept |-> map[e]] (+) SetToBag({Entry(k, merged)})

\* HashMapInsert that appends: the entry stored under the key is not dropped
HashMapInsertPush(map, k, val) == map (+) SetToBag({Entry(k, val)})

\* HashMap::insert: the entry stored under the key, if any, is dropped and
\* the new entry is stored
HashMapInsert(map, k, val) ==
    LET kept == {e \in BagToSet(map) : e.key # k}
    IN  [e \in kept |-> map[e]] (+) SetToBag({Entry(k, val)})

\* HashMap::get(key).cloned()
HashMapGet(map, k) ==
    IF \E e \in BagToSet(map) : e.key = k
    THEN Some((CHOOSE e \in BagToSet(map) : e.key = k).value)
    ELSE None

\* the orders in which HashMap::values() can yield the entries of the map:
\* every enumeration of the entries
RECURSIVE Enumerations(_)
Enumerations(map) ==
    IF map = EmptyBag
    THEN {<<>>}
    ELSE UNION {{<<e.value>> \o rest : rest \in Enumerations(map (-) SetToBag({e}))} :
                    e \in BagToSet(map)}

(***************************************************************************)
(* The network.  A datagram is its source address and its bytes; the bytes *)
(* are either the text of a JSON value or something else.                  *)
(***************************************************************************)
JsonBytes(val) == [json |-> TRUE, value |-> val]
RawBytes(text) == [json |-> FALSE, text |-> text]

\* serde_json::from_slice::<serde_json::Value>
from_slice(bytes) == IF bytes.json THEN Ok(bytes.value) ELSE Err("expected value")

Addr(ip, port) == [ip |-> ip, port |-> port]

LanMessage(cmd, data) == JObj([msg |-> JObj([cmd |-> JStr(cmd), data |-> JObj(data)])])

\* the advertisement of the end-to-end example
ScanABC ==
    [src |-> Addr("192.168.1.50", 4001),
     bytes |-> JsonBytes(LanMessage("scan", [device |-> JStr("ABC123"), sku |-> JStr("H6159")]))]
\* a status report of the same device
StatusABC ==
    [src |-> Addr("192.168.1.50", 4001),
     bytes |-> JsonBytes(LanMessage("devStatus",
                  [device |-> JStr("ABC123"), onOff |-> JInt(1), brightness |-> JInt(300),
                   color |-> JObj([r |-> JInt(10), g |-> JInt(20), b |-> JInt(30)])]))]
\* the advertisement of a second device, which reports its own address
ScanXYZ ==
    [src |-> Addr("192.168.1.1", 4001),
     bytes |-> JsonBytes(LanMessage("scan",
                  [device |-> JStr("XYZ789"), deviceName |-> JStr("Desk"),
                   ip |-> JStr("192.168.1.51")]))]
\* bytes that are not JSON
NotJson == [src |-> Addr("192.168.1.77", 5353), bytes |-> RawBytes("M-SEARCH * HTTP/1.1")]
\* JSON without the required device field
NoDeviceField ==
    [src |-> Addr("192.168.1.50", 4001),
     bytes |-> JsonBytes(LanMessage("scan", [sku |-> JStr("H6159")]))]
\* JSON with a cmd that is neither scan nor devStatus
UnknownCmd ==
    [src |-> Addr("192.168.1.50", 4001),
     bytes |-> JsonBytes(LanMessage("turn", [device |-> JStr("ABC123"), value |-> JInt(1)]))]

\* the datagrams that can arrive at the response socket of a discovery
Datagrams == {ScanABC, StatusABC, ScanXYZ, NotJson, NoDeviceField, UnknownCmd}
\* the datagrams that can arrive at the socket of govee_send_lan_command
Replies == {StatusABC, NotJson}
\* the datagrams that can arrive at a response port: the devices answer the
\* probes to port 4002, the first response port; a status report and foreign
\* traffic arrive at the other one too
ArrivingAt(port) == IF port = 4002 THEN Datagrams ELSE Replies

\* "<host>:<port>".parse::<SocketAddr>(): the hosts that are IP addresses
IpHosts == {"255.255.255.255", "239.255.255.250", "192.168.1.50"}
ParseSocketAddr(host, port) ==
    IF host \in IpHosts THEN Ok(Addr(host, port)) ELSE Err("invalid socket address syntax")

\* if let Ok(response) = serde_json::from_slice(&buffer[..size]) and then
\* parse_device_response(&response, &src_addr); None when either fails
ParseDatagram(dgram) ==
    LET response == from_slice(dgram.bytes)
    IN  IF response.ok THEN parse_device_response(response.v, dgram.src) ELSE None

(***************************************************************************)
(* Arguments of the commands.                                              *)
(***************************************************************************)
MulticastGroups == {"239.255.255.250", "govee.local"}
DiscoveryPorts == {4001}
ResponsePorts == {4002, 4012}
DeviceIps == {"192.168.1.50", "desk-lamp"}
Messages == {"{\"msg\":{\"cmd\":\"turn\",\"data\":{\"value\":1}}}"}
CommandPorts == {4003}
DeviceIds == {"ABC123", "XYZ789"}

\* the arguments of the calls of govee_discover_devices: caller 1 calls it
\* with every combination of the argument values, the other callers with the
\* defaults of the application on the second response port
DiscoverArgs(p) ==
    IF p = 1
    THEN [cmd : {"govee_discover_devices"}, timeout : Timeouts,
          multicast_group : MulticastGroups, discovery_port : DiscoveryPorts,
          response_port : ResponsePorts]
    ELSE {[cmd |-> "govee_discover_devices", timeout |-> 2000,
           multicast_group |-> "239.255.255.250", discovery_port |-> 4001,
           response_port |-> 4012]}

SendLanCommandArgs ==
    [cmd : {"govee_send_lan_command"}, device_ip : DeviceIps, message : Messages,
     expect_response : BOOLEAN, port : CommandPorts]

RegistryArgs ==
    [cmd : {"govee_get_device"}, device_id : DeviceIds]
        \cup {[cmd |-> "govee_get_all_devices"], [cmd |-> "govee_clear_devices"]}

\* the discovery message: LanMessage { cmd: "scan", data: {"account_topic": "reserve"} }
discovery_msg == LanMessage("scan", [account_topic |-> JStr("reserve")])

NoCall == [cmd |-> "none"]

(***************************************************************************)
(* State.                                                                  *)
(***************************************************************************)
VARIABLES
    state_devices,  \* GoveeState.devices: the HashMap behind the mutex
    lock,           \* the caller that holds the mutex of GoveeState.devices, 0 if none
    pc,             \* where each caller is in the command it runs
    call,           \* the command each caller runs, with its arguments
    devices,        \* govee_discover_devices: the Vec of devices collected so far
    elapsed,        \* ms since `start` (discover) or since the call began (send)
    waited,         \* ms the recv_from in progress has been blocked
    result,         \* the value a finished command returned, None while it runs
    bound,          \* the response ports that are bound, and by which caller
    sent,           \* the send_to calls of the command in progress: [to, bytes, ok]
    responses,      \* what the datagrams recv_from handed to the command decoded to
    delivered,      \* number of datagrams the network has delivered so far
    \* what happened to the registry, recorded for the properties below
    cleared,        \* a clear ran since the discover call of the caller began
    foreign,        \* another caller stored a device since the discover call began
    \* parse_device_response on its own
    input,          \* the arguments of the call: [response, src_addr]
    output,         \* what the call returned, Pending before it has
    \* spotify_auth.rs
    code_verifier,  \* PKCEState.code_verifier: the Option behind the mutex
    calls,          \* the calls of the code verifier commands so far, with their results
    token,          \* SpotifyAuthState.token: the Option behind the mutex
    keyring,        \* the password stored in the OS keyring under the account, if any
    file,           \* the content of spotify_token.json, if the file exists
    keyring_available,  \* the keyring can be reached
    file_writable,  \* the storage directory can be written to
    now,            \* SystemTime::now() in seconds since the epoch
    returned,       \* the token command that returned last, with its result
    logged_out      \* logout has returned and store_spotify_token was not called since

history == <<cleared, foreign>>
parser == <<input, output>>
pkce == <<code_verifier, calls>>
tokens == <<token, keyring, file, keyring_available, file_writable, now, returned, logged_out>>
auth == <<pkce, tokens>>
net == <<sent, responses, delivered>>

vars == <<state_devices, lock, pc, call, devices, elapsed, waited, result,
          bound, sent, responses, delivered, cleared, foreign, input, output,
          code_verifier, calls, token, keyring, file, keyring_available,
          file_writable, now, returned, logged_out>>

Pending == [t |-> "Pending"]
NoInput == [response |-> JNull, src_addr |-> Addr("0.0.0.0", 0)]

\* the commands have not been called
Idle ==
    /\ state_devices = EmptyBag
    /\ lock = 0
    /\ pc = [p \in Callers |-> "idle"]
    /\ call = [p \in Callers |-> NoCall]
    /\ devices = [p \in Callers |-> <<>>]
    /\ elapsed = [p \in Callers |-> 0]
    /\ waited = [p \in Callers |-> 0]
    /\ result = [p \in Callers |-> None]
    /\ bound = [port \in ResponsePorts |-> 0]
    /\ sent = [p \in Callers |-> <<>>]
    /\ responses = [p \in Callers |-> <<>>]
    /\ delivered = 0
    /\ cleared = [p \in Callers |-> FALSE]
    /\ foreign = [p \in Callers |-> FALSE]

\* no command of spotify_auth.rs has been called and nothing is persisted
NoAuth ==
    /\ code_verifier = None
    /\ calls = <<>>
    /\ token = None
    /\ keyring = None
    /\ file = None
    /\ keyring_available = TRUE
    /\ file_writable = TRUE
    /\ now = 0
    /\ returned = NoCall
    /\ logged_out = FALSE

Init ==
    /\ Idle
    /\ input = NoInput
    /\ output = Pending
    /\ NoAuth

\* the caller is inside a call of govee_discover_devices
Discovering(p) == call[p].cmd = "govee_discover_devices" /\ pc[p] # "done"

\* the command returns r: its sockets are dropped
Finish(p, r) ==
    /\ pc' = [pc EXCEPT ![p] = "done"]
    /\ result' = [result EXCEPT ![p] = Some(r)]
    /\ bound' = [port \in ResponsePorts |-> IF bound[port] = p THEN 0 ELSE bound[port]]

Goto(p, label) ==
    /\ pc' = [pc EXCEPT ![p] = label]
    /\ UNCHANGED <<result, bound>>

(***************************************************************************)
(* govee_discover_devices                                                  *)
(***************************************************************************)
\* the call begins: UdpSocket::bind("0.0.0.0:<response_port>"), which fails
\* when the port is in use
InvokeDiscover(p) ==
    /\ pc[p] = "idle"
    /\ \E args \in DiscoverArgs(p) :
         /\ call' = [call EXCEPT ![p] = args]
         /\ \/ /\ bound[args.response_port] = 0
               /\ bound' = [bound EXCEPT ![args.response_port] = p]
               /\ pc' = [pc EXCEPT ![p] = "set_read_timeout"]
               /\ UNCHANGED result
            \/ Finish(p, Err("Failed to bind response socket"))
    /\ UNCHANGED <<state_devices, lock, devices, elapsed, waited, net, history>>

\* DiscoverSetup that checks the result of set_broadcast late: the probe is
\* sent before the error is returned
DiscoverSetupChecksLate(p) ==
    /\ pc[p] = "set_read_timeout"
    /\ \/ /\ Finish(p, Err("Failed to set socket timeout"))
          /\ UNCHANGED sent
       \/ /\ call[p].timeout # 0
          /\ \/ Finish(p, Err("Failed to bind send socket")) /\ UNCHANGED sent
             \/ /\ Finish(p, Err("Failed to enable broadcast"))
                /\ sent' = [sent EXCEPT ![p] =
                       <<[to |-> Addr("255.255.255.255", call[p].discovery_port),
                          bytes |-> discovery_msg, ok |-> FALSE]>>]
             \/ Finish(p, Err("Failed to serialize discovery message")) /\ UNCHANGED sent
             \/ Goto(p, "send_to") /\ UNCHANGED sent
    /\ UNCHANGED <<state_devices, lock, call, devices, elapsed, waited, responses,
                   delivered, history>>

\* the rest of the setup, in the order of the code:
\* set_read_timeout(Some(Duration::from_millis(timeout))), an error for the
\* zero duration; UdpSocket::bind("0.0.0.0:0"); set_broadcast(true);
\* serde_json::to_vec(&discovery_msg)
DiscoverSetup(p) ==
    /\ pc[p] = "set_read_timeout"
    /\ \/ Finish(p, Err("Failed to set socket timeout"))
       \/ /\ call[p].timeout # 0
          /\ \/ Finish(p, Err("Failed to bind send socket"))
             \/ Finish(p, Err("Failed to enable broadcast"))
             \/ Finish(p, Err("Failed to serialize discovery message"))
             \/ Goto(p, "send_to")
    /\ UNCHANGED <<state_devices, lock, call, devices, elapsed, waited, net, history>>

\* while start.elapsed() < Duration::from_millis(timeout): the next recv_from
\* is begun, or the loop is left and Ok(devices) is returned
While(p, elapsed_ms, found) ==
    IF elapsed_ms < call[p].timeout
    THEN /\ Goto(p, "recv_from")
         /\ waited' = [waited EXCEPT ![p] = 0]
    ELSE /\ Finish(p, Ok(found))
         /\ UNCHANGED waited

\* the probe was sent: let mut devices = Vec::new(); let start = Instant::now();
\* and the loop is entered
StartWindow(p) ==
    /\ devices' = [devices EXCEPT ![p] = <<>>]
    /\ elapsed' = [elapsed EXCEPT ![p] = 0]
    /\ While(p, 0, <<>>)

\* DiscoverSend without the condition on the fallback: the probe is sent to
\* the multicast group after a broadcast that succeeded, too
DiscoverSendBoth(p) ==
    /\ pc[p] = "send_to"
    /\ LET broadcast_addr == ParseSocketAddr("255.255.255.255", call[p].discovery_port)
           multicast_addr == ParseSocketAddr(call[p].multicast_group, call[p].discovery_port)
           broadcast(ok) == [to |-> broadcast_addr.v, bytes |-> discovery_msg, ok |-> ok]
           multicast(ok) == [to |-> multicast_addr.v, bytes |-> discovery_msg, ok |-> ok]
       IN  \/ /\ ~multicast_addr.ok
              /\ \E ok \in BOOLEAN : sent' = [sent EXCEPT ![p] = <<broadcast(ok)>>]
              /\ Finish(p, Err("Invalid multicast address"))
              /\ UNCHANGED <<devices, elapsed, waited>>
           \/ /\ multicast_addr.ok
              /\ \E ok \in BOOLEAN :
                    sent' = [sent EXCEPT ![p] = <<broadcast(ok), multicast(FALSE)>>]
              /\ Finish(p, Err("Failed to send discovery message"))
              /\ UNCHANGED <<devices, elapsed, waited>>
           \/ /\ multicast_addr.ok
              /\ \E ok \in BOOLEAN :
                    sent' = [sent EXCEPT ![p] = <<broadcast(ok), multicast(TRUE)>>]
              /\ StartWindow(p)
    /\ UNCHANGED <<state_devices, lock, call, responses, delivered, history>>

\* the broadcast address is parsed and the probe is sent to it; when that
\* send fails, the multicast address is parsed and the probe is sent to it
DiscoverSend(p) ==
    /\ pc[p] = "send_to"
    /\ LET broadcast_addr == ParseSocketAddr("255.255.255.255", call[p].discovery_port)
           multicast_addr == ParseSocketAddr(call[p].multicast_group, call[p].discovery_port)
           broadcast(ok) == [to |-> broadcast_addr.v, bytes |-> discovery_msg, ok |-> ok]
           multicast(ok) == [to |-> multicast_addr.v, bytes |-> discovery_msg, ok |-> ok]
       IN  IF ~broadcast_addr.ok
           THEN /\ Finish(p, Err("Invalid broadcast address"))
                /\ UNCHANGED <<sent, devices, elapsed, waited>>
           ELSE \/ /\ sent' = [sent EXCEPT ![p] = <<broadcast(TRUE)>>]
                   /\ StartWindow(p)
                \/ /\ ~multicast_addr.ok
                   /\ sent' = [sent EXCEPT ![p] = <<broadcast(FALSE)>>]
                   /\ Finish(p, Err("Invalid multicast address"))
                   /\ UNCHANGED <<devices, elapsed, waited>>
                \/ /\ multicast_addr.ok
                   /\ sent' = [sent EXCEPT ![p] = <<broadcast(FALSE), multicast(FALSE)>>]
                   /\ Finish(p, Err("Failed to send discovery message"))
                   /\ UNCHANGED <<devices, elapsed, waited>>
                \/ /\ multicast_addr.ok
                   /\ sent' = [sent EXCEPT ![p] = <<broadcast(FALSE), multicast(TRUE)>>]
                   /\ StartWindow(p)
    /\ UNCHANGED <<state_devices, lock, call, responses, delivered, history>>

\* DiscoverRecvOk with ? on the parse: a datagram that yields no device ends
\* the call with an error
DiscoverRecvOkAborts(p) ==
    /\ pc[p] = "recv_from"
    /\ waited[p] < call[p].timeout
    /\ delivered < MaxDatagrams
    /\ \E dgram \in ArrivingAt(call[p].response_port) :
         LET parsed == ParseDatagram(dgram)
         IN  /\ responses' = [responses EXCEPT ![p] = Append(@, parsed)]
             /\ IF IsSome(parsed)
                THEN /\ devices' = [devices EXCEPT ![p] = Append(@, parsed.v)]
                     /\ Goto(p, "lock")
                ELSE /\ Finish(p, Err("Failed to parse response"))
                     /\ UNCHANGED devices
    /\ delivered' = delivered + 1
    /\ UNCHANGED <<state_devices, lock, call, elapsed, waited, sent, history>>

\* DiscoverRecvOk with insert(0, device) in the place of push: the newest
\* device comes first
DiscoverRecvOkPushFront(p) ==
    /\ pc[p] = "recv_from"
    /\ waited[p] < call[p].timeout
    /\ delivered < MaxDatagrams
    /\ \E dgram \in ArrivingAt(call[p].response_port) :
         LET parsed == ParseDatagram(dgram)
         IN  /\ responses' = [responses EXCEPT ![p] = Append(@, parsed)]
             /\ IF IsSome(parsed)
                THEN /\ devices' = [devices EXCEPT ![p] = <<parsed.v>> \o @]
                     /\ Goto(p, "lock")
                     /\ UNCHANGED waited
                ELSE /\ While(p, elapsed[p], devices[p])
                     /\ UNCHANGED devices
    /\ delivered' = delivered + 1
    /\ UNCHANGED <<state_devices, lock, call, elapsed, sent, history>>

\* recv_from returns a datagram before the read timeout: it is parsed, and a
\* device it yields is pushed to the Vec
DiscoverRecvOk(p) ==
    /\ pc[p] = "recv_from"
    /\ waited[p] < call[p].timeout
    /\ delivered < MaxDatagrams
    /\ \E dgram \in ArrivingAt(call[p].response_port) :
         LET parsed == ParseDatagram(dgram)
         IN  /\ responses' = [responses EXCEPT ![p] = Append(@, parsed)]
             /\ IF IsSome(parsed)
                THEN /\ devices' = [devices EXCEPT ![p] = Append(@, parsed.v)]
                     /\ Goto(p, "lock")
                     /\ UNCHANGED waited
                ELSE /\ While(p, elapsed[p], devices[p])
                     /\ UNCHANGED devices
    /\ delivered' = delivered + 1
    /\ UNCHANGED <<state_devices, lock, call, elapsed, sent, history>>

\* DiscoverRecvErr with start = Instant::now() inside the loop: the elapsed
\* time is counted from the recv_from that failed
DiscoverRecvErrRestarts(p) ==
    /\ pc[p] = "recv_from"
    /\ elapsed' = [elapsed EXCEPT ![p] = 0]
    /\ While(p, 0, devices[p])
    /\ UNCHANGED <<state_devices, lock, call, devices, net, history>>

\* DiscoverRecvErr with break in the Err arm: a recv_from that fails ends
\* the loop
DiscoverRecvErrBreaks(p) ==
    /\ pc[p] = "recv_from"
    /\ Finish(p, Ok(devices[p]))
    /\ UNCHANGED <<state_devices, lock, call, devices, elapsed, waited, net, history>>

\* recv_from fails: with WouldBlock or TimedOut when the read timeout has
\* passed, with another error at any time
DiscoverRecvErr(p) ==
    /\ pc[p] = "recv_from"
    /\ While(p, elapsed[p], devices[p])
    /\ UNCHANGED <<state_devices, lock, call, devices, elapsed, net, history>>

\* let mut state_devices = state.devices.lock().unwrap();
DiscoverLock(p) ==
    /\ pc[p] = "lock"
    /\ lock = 0
    /\ lock' = p
    /\ Goto(p, "insert")
    /\ UNCHANGED <<state_devices, call, devices, elapsed, waited, net, history>>

\* the device that was pushed last
Device(p) == devices[p][Len(devices[p])]

\* DiscoverInsert with entry(key).or_insert(device) in the place of insert: a
\* device whose id is stored already is not stored
DiscoverInsertIfAbsent(p) ==
    /\ pc[p] = "insert"
    /\ lock = p
    /\ state_devices' = IF IsSome(HashMapGet(state_devices, Device(p).id))
                        THEN state_devices
                        ELSE HashMapInsert(state_devices, Device(p).id, Device(p))
    /\ lock' = 0
    /\ While(p, elapsed[p], devices[p])
    /\ foreign' = [q \in Callers |-> foreign[q] \/ (q # p /\ Discovering(q))]
    /\ UNCHANGED <<call, devices, elapsed, net, cleared>>

\* DiscoverInsert whose guard lives as long as the loop: the lock is not
\* released before the next recv_from
DiscoverInsertKeepsLock(p) ==
    /\ pc[p] = "insert"
    /\ lock = p
    /\ state_devices' = HashMapInsert(state_devices, Device(p).id, Device(p))
    /\ lock' = IF elapsed[p] < call[p].timeout THEN p ELSE 0
    /\ While(p, elapsed[p], devices[p])
    /\ foreign' = [q \in Callers |-> foreign[q] \/ (q # p /\ Discovering(q))]
    /\ UNCHANGED <<call, devices, elapsed, net, cleared>>

\* DiscoverInsert that makes the registry the result of this call: the
\* entries of the other calls are dropped
DiscoverInsertOwn(p) ==
    /\ pc[p] = "insert"
    /\ lock = p
    /\ state_devices' = SetToBag({Entry(Device(p).id, Device(p))})
    /\ lock' = 0
    /\ While(p, elapsed[p], devices[p])
    /\ foreign' = [q \in Callers |-> foreign[q] \/ (q # p /\ Discovering(q))]
    /\ UNCHANGED <<call, devices, elapsed, net, cleared>>

\* DiscoverInsert with the address as the key: the device is stored under
\* its ip
DiscoverInsertByIp(p) ==
    /\ pc[p] = "insert"
    /\ lock = p
    /\ state_devices' = HashMapInsert(state_devices, Device(p).ip, Device(p))
    /\ lock' = 0
    /\ While(p, elapsed[p], devices[p])
    /\ foreign' = [q \in Callers |-> foreign[q] \/ (q # p /\ Discovering(q))]
    /\ UNCHANGED <<call, devices, elapsed, net, cleared>>

\* DiscoverInsert that commits at the end of the window: nothing is stored
\* while the loop goes on
DiscoverInsertAtEnd(p) ==
    /\ pc[p] = "insert"
    /\ lock = p
    /\ state_devices' = IF elapsed[p] < call[p].timeout
                        THEN state_devices
                        ELSE HashMapInsert(state_devices, Device(p).id, Device(p))
    /\ lock' = 0
    /\ While(p, elapsed[p], devices[p])
    /\ foreign' = [q \in Callers |-> foreign[q] \/ (q # p /\ Discovering(q))]
    /\ UNCHANGED <<call, devices, elapsed, net, cleared>>

\* state_devices.insert(device.id.clone(), device); the guard is dropped at
\* the end of the block
DiscoverInsert(p) ==
    /\ pc[p] = "insert"
    /\ lock = p
    /\ state_devices' = HashMapInsert(state_devices, Device(p).id, Device(p))
    /\ lock' = 0
    /\ While(p, elapsed[p], devices[p])
    /\ foreign' = [q \in Callers |-> foreign[q] \/ (q # p /\ Discovering(q))]
    /\ UNCHANGED <<call, devices, elapsed, net, cleared>>

(***************************************************************************)
(* govee_send_lan_command                                                  *)
(***************************************************************************)
\* InvokeSendLanCommand that waits for a reply whatever expect_response is
InvokeSendLanCommandWaits(p) ==
    /\ pc[p] = "idle"
    /\ \E args \in SendLanCommandArgs :
         LET device_addr == ParseSocketAddr(args.device_ip, args.port)
             send(ok) == [to |-> device_addr.v, bytes |-> args.message, ok |-> ok]
         IN  /\ call' = [call EXCEPT ![p] = args]
             /\ \/ /\ Finish(p, Err("Failed to create socket"))
                   /\ UNCHANGED <<sent, waited>>
                \/ /\ ~device_addr.ok
                   /\ Finish(p, Err("Invalid device address"))
                   /\ UNCHANGED <<sent, waited>>
                \/ /\ device_addr.ok
                   /\ sent' = [sent EXCEPT ![p] = <<send(FALSE)>>]
                   /\ Finish(p, Err("Failed to send command"))
                   /\ UNCHANGED waited
                \/ /\ device_addr.ok
                   /\ sent' = [sent EXCEPT ![p] = <<send(TRUE)>>]
                   /\ Goto(p, "cmd_recv_from")
                   /\ waited' = [waited EXCEPT ![p] = 0]
    /\ elapsed' = [elapsed EXCEPT ![p] = 0]
    /\ UNCHANGED <<state_devices, lock, devices, responses, delivered, history>>

\* the call up to its send_to: UdpSocket::bind("0.0.0.0:0"); with
\* expect_response, set_read_timeout(Some(2 s)); the device address is parsed
\* and the message is sent to it; without expect_response the acknowledgement
\* is returned
InvokeSendLanCommand(p) ==
    /\ pc[p] = "idle"
    /\ \E args \in SendLanCommandArgs :
         LET device_addr == ParseSocketAddr(args.device_ip, args.port)
             send(ok) == [to |-> device_addr.v, bytes |-> args.message, ok |-> ok]
         IN  /\ call' = [call EXCEPT ![p] = args]
             /\ \/ /\ Finish(p, Err("Failed to create socket"))
                   /\ UNCHANGED <<sent, waited>>
                \/ /\ args.expect_response
                   /\ Finish(p, Err("Failed to set timeout"))
                   /\ UNCHANGED <<sent, waited>>
                \/ /\ ~device_addr.ok
                   /\ Finish(p, Err("Invalid device address"))
                   /\ UNCHANGED <<sent, waited>>
                \/ /\ device_addr.ok
                   /\ sent' = [sent EXCEPT ![p] = <<send(FALSE)>>]
                   /\ Finish(p, Err("Failed to send command"))
                   /\ UNCHANGED waited
                \/ /\ device_addr.ok
                   /\ sent' = [sent EXCEPT ![p] = <<send(TRUE)>>]
                   /\ IF args.expect_response
                      THEN Goto(p, "cmd_recv_from") /\ waited' = [waited EXCEPT ![p] = 0]
                      ELSE Finish(p, Ok(JObj([success |-> JBool(TRUE)]))) /\ UNCHANGED waited
    /\ elapsed' = [elapsed EXCEPT ![p] = 0]
    /\ UNCHANGED <<state_devices, lock, devices, responses, delivered, history>>

\* SendLanCommandRecvOk with unwrap_or_default on the parse: a reply that is
\* not JSON is returned as null
SendLanCommandRecvOkDefault(p) ==
    /\ pc[p] = "cmd_recv_from"
    /\ waited[p] < CmdTimeoutMs
    /\ delivered < MaxDatagrams
    /\ \E dgram \in Replies :
         LET response == from_slice(dgram.bytes)
         IN  /\ responses' = [responses EXCEPT ![p] = Append(@, response)]
             /\ Finish(p, Ok(IF response.ok THEN response.v ELSE JNull))
    /\ delivered' = delivered + 1
    /\ UNCHANGED <<state_devices, lock, call, devices, elapsed, waited, sent, history>>

\* SendLanCommandRecvOk that keeps the registry up to date: a reply that
\* parses to a device is stored
SendLanCommandRecvOkStores(p) ==
    /\ pc[p] = "cmd_recv_from"
    /\ waited[p] < CmdTimeoutMs
    /\ delivered < MaxDatagrams
    /\ \E dgram \in Replies :
         LET response == from_slice(dgram.bytes)
             parsed == ParseDatagram(dgram)
         IN  /\ responses' = [responses EXCEPT ![p] = Append(@, response)]
             /\ state_devices' = IF IsSome(parsed)
                                 THEN HashMapInsert(state_devices, parsed.v.id, parsed.v)
                                 ELSE state_devices
             /\ IF response.ok
                THEN Finish(p, Ok(response.v))
                ELSE Finish(p, Err("Failed to parse response"))
    /\ delivered' = delivered + 1
    /\ UNCHANGED <<lock, call, devices, elapsed, waited, sent, history>>

\* socket.recv_from returns a datagram before the read timeout
SendLanCommandRecvOk(p) ==
    /\ pc[p] = "cmd_recv_from"
    /\ waited[p] < CmdTimeoutMs
    /\ delivered < MaxDatagrams
    /\ \E dgram \in Replies :
         LET response == from_slice(dgram.bytes)
         IN  /\ responses' = [responses EXCEPT ![p] = Append(@, response)]
             /\ IF response.ok
                THEN Finish(p, Ok(response.v))
                ELSE Finish(p, Err("Failed to parse response"))
    /\ delivered' = delivered + 1
    /\ UNCHANGED <<state_devices, lock, call, devices, elapsed, waited, sent, history>>

\* socket.recv_from fails: the read timeout has passed, or another error
SendLanCommandRecvErr(p) ==
    /\ pc[p] = "cmd_recv_from"
    /\ Finish(p, Err("Failed to receive response"))
    /\ UNCHANGED <<state_devices, lock, call, devices, elapsed, waited, net, history>>

(***************************************************************************)
(* govee_get_device, govee_get_all_devices, govee_clear_devices            *)
(***************************************************************************)
\* the call begins: state.devices.lock().unwrap()
InvokeRegistry(p) ==
    /\ pc[p] = "idle"
    /\ lock = 0
    /\ \E args \in RegistryArgs : call' = [call EXCEPT ![p] = args]
    /\ lock' = p
    /\ Goto(p, "locked")
    /\ UNCHANGED <<state_devices, devices, elapsed, waited, net, history>>

\* GetDevice with remove(&device_id) in the place of get: the entry it
\* returns is taken out of the registry
GetDeviceRemoves(p) ==
    /\ pc[p] = "locked"
    /\ call[p].cmd = "govee_get_device"
    /\ lock = p
    /\ Finish(p, HashMapGet(state_devices, call[p].device_id))
    /\ state_devices' =
           [e \in {x \in BagToSet(state_devices) : x.key # call[p].device_id} |->
               state_devices[e]]
    /\ lock' = 0
    /\ UNCHANGED <<call, devices, elapsed, waited, net, history>>

\* devices.get(&device_id).cloned()
GetDevice(p) ==
    /\ pc[p] = "locked"
    /\ call[p].cmd = "govee_get_device"
    /\ lock = p
    /\ Finish(p, HashMapGet(state_devices, call[p].device_id))
    /\ lock' = 0
    /\ UNCHANGED <<state_devices, call, devices, elapsed, waited, net, history>>

\* devices.values().cloned().collect()
GetAllDevices(p) ==
    /\ pc[p] = "locked"
    /\ call[p].cmd = "govee_get_all_devices"
    /\ lock = p
    /\ \E values \in Enumerations(state_devices) : Finish(p, values)
    /\ lock' = 0
    /\ UNCHANGED <<state_devices, call, devices, elapsed, waited, net, history>>

\* ClearDevices that skips devices.clear()
ClearDevicesKeeps(p) ==
    /\ pc[p] = "locked"
    /\ call[p].cmd = "govee_clear_devices"
    /\ lock = p
    /\ Finish(p, <<>>)
    /\ lock' = 0
    /\ cleared' = [q \in Callers |-> cleared[q] \/ Discovering(q)]
    /\ UNCHANGED <<state_devices, call, devices, elapsed, waited, net, foreign>>

\* devices.clear()
ClearDevices(p) ==
    /\ pc[p] = "locked"
    /\ call[p].cmd = "govee_clear_devices"
    /\ lock = p
    /\ state_devices' = EmptyBag
    /\ Finish(p, <<>>)
    /\ lock' = 0
    /\ cleared' = [q \in Callers |-> cleared[q] \/ Discovering(q)]
    /\ UNCHANGED <<call, devices, elapsed, waited, net, foreign>>

(***************************************************************************)
(* The caller takes the result of its command.                             *)
(***************************************************************************)
Return(p) ==
    /\ pc[p] = "done"
    /\ pc' = [pc EXCEPT ![p] = "idle"]
    /\ call' = [call EXCEPT ![p] = NoCall]
    /\ result' = [result EXCEPT ![p] = None]
    /\ devices' = [devices EXCEPT ![p] = <<>>]
    /\ elapsed' = [elapsed EXCEPT ![p] = 0]
    /\ waited' = [waited EXCEPT ![p] = 0]
    /\ sent' = [sent EXCEPT ![p] = <<>>]
    /\ responses' = [responses EXCEPT ![p] = <<>>]
    /\ cleared' = [cleared EXCEPT ![p] = FALSE]
    /\ foreign' = [foreign EXCEPT ![p] = FALSE]
    /\ UNCHANGED <<state_devices, lock, bound, delivered>>

(***************************************************************************)
(* Time passes while every command in progress is blocked in a recv_from   *)
(* whose read timeout has not passed; the steps between take no time.      *)
(***************************************************************************)
Blocked(p) == pc[p] \in {"recv_from", "cmd_recv_from"}
ReadTimeout(p) == IF pc[p] = "recv_from" THEN call[p].timeout ELSE CmdTimeoutMs

Tick ==
    /\ \E p \in Callers : Blocked(p)
    /\ \A p \in Callers : pc[p] = "idle" \/ (Blocked(p) /\ waited[p] < ReadTimeout(p))
    /\ elapsed' = [p \in Callers |-> IF Blocked(p) THEN elapsed[p] + 1000 ELSE elapsed[p]]
    /\ waited' = [p \in Callers |-> IF Blocked(p) THEN waited[p] + 1000 ELSE waited[p]]
    /\ UNCHANGED <<state_devices, lock, pc, call, devices, result, bound, net, history>>

\* A finished command hands its result to its caller at once: a state with
\* pc[p] = "done" is the moment at which the command of p returns.
Returning == \E p \in Callers : pc[p] = "done"

Step(p) ==
    \/ InvokeDiscover(p)
    \/ DiscoverSetup(p)
    \/ DiscoverSend(p)
    \/ DiscoverRecvOk(p)
    \/ DiscoverRecvErr(p)
    \/ DiscoverLock(p)
    \/ DiscoverInsert(p)
    \/ InvokeSendLanCommand(p)
    \/ SendLanCommandRecvOk(p)
    \/ SendLanCommandRecvErr(p)
    \/ InvokeRegistry(p)
    \/ GetDevice(p)
    \/ GetAllDevices(p)
    \/ ClearDevices(p)

Next ==
    \/ (\E p \in Callers : Return(p)) /\ UNCHANGED <<parser, auth>>
    \/ ~Returning /\ (\E p \in Callers : Step(p)) /\ UNCHANGED <<parser, auth>>
    \/ ~Returning /\ Tick /\ UNCHANGED <<parser, auth>>

Spec == Init /\ [][Next]_vars

(***************************************************************************)
(* The same program when the clock advances and every thread runs: time    *)
(* passes again and again (the steps between take no time, so only         *)
(* finitely many happen at one instant), a recv_from whose read timeout    *)
(* has passed returns, a thread that can take a step of its own takes it,  *)
(* a thread that waits for the lock gets it when it is free again and      *)
(* again, and a result is taken by the caller.  The fairness of the steps  *)
(* of a thread is strong because they are disabled in passing: the lock    *)
(* while another thread holds it, the others at the moments at which       *)
(* another command returns.                                                *)
(***************************************************************************)
\* the recv_from of p returns because its read timeout has passed
TimesOut(p) ==
    /\ Blocked(p)
    /\ waited[p] >= ReadTimeout(p)
    /\ (DiscoverRecvErr(p) \/ SendLanCommandRecvErr(p))

\* the step of the thread of p that waits for no datagram: at each place of
\* a command at most one of them is possible
Runs(p) ==
    \/ Return(p) /\ UNCHANGED <<parser, auth>>
    \/ /\ ~Returning
       /\ \/ DiscoverSetup(p)
          \/ DiscoverSend(p)
          \/ TimesOut(p)
          \/ DiscoverLock(p)
          \/ DiscoverInsert(p)
          \/ GetDevice(p)
          \/ GetAllDevices(p)
          \/ ClearDevices(p)
       /\ UNCHANGED <<parser, auth>>

Fairness ==
    /\ SF_vars(~Returning /\ Tick /\ UNCHANGED <<parser, auth>>)
    /\ \A p \in Callers : SF_vars(Runs(p))

\* The calls against which termination is checked: caller 1 calls
\* govee_discover_devices, caller 2 the commands of the registry, which
\* contend with it for the lock.
LoopCmds(p) ==
    IF p = 1
    THEN {"govee_discover_devices"}
    ELSE {"govee_get_device", "govee_get_all_devices", "govee_clear_devices"}

LoopStep(p) == Step(p) /\ call'[p].cmd \in LoopCmds(p)

LoopNext ==
    \/ (\E p \in Callers : Return(p)) /\ UNCHANGED <<parser, auth>>
    \/ ~Returning /\ (\E p \in Callers : LoopStep(p)) /\ UNCHANGED <<parser, auth>>
    \/ ~Returning /\ Tick /\ UNCHANGED <<parser, auth>>

FairSpec == Init /\ [][LoopNext]_vars /\ Fairness

(***************************************************************************)
(* parse_device_response on its own: the payloads it is called with, and   *)
(* the specification in which it is called with one payload after another. *)
(* A member of an object that may be absent is an Option of a value.       *)
(***************************************************************************)
\* the JSON object with the members that are present
Object(members) ==
    JObj([k \in {key \in DOMAIN members : IsSome(members[key])} |-> members[k].v])

\* {"msg": {"cmd": .., "data": ..}}, each member present or not
Message(cmd, data) == Object([msg |-> Some(Object([cmd |-> cmd, data |-> data]))])

DeviceMembers == {None, Some(JStr("ABC123")), Some(JStr("")), Some(JInt(7)), Some(JNull)}
NameMembers == {None, Some(JStr("Desk"))}
SkuMembers == {None, Some(JStr("H6159"))}
IpMembers == {None, Some(JStr("192.168.1.51")), Some(JInt(51))}
OnOffMembers ==
    {None, Some(JInt(1)), Some(JInt(0)), Some(JInt(2)), Some(JInt(-1)), Some(JStr("1")),
     Some(JBool(TRUE)), Some(JFloat("1.0")), Some(JNull)}
MusicModeMembers == {None, Some(JBool(TRUE)), Some(JBool(FALSE)), Some(JInt(1))}
ModeMembers == {None, Some(JStr("music"))}
BrightnessMembers ==
    {None, Some(JInt(0)), Some(JInt(100)), Some(JInt(255)), Some(JInt(256)), Some(JInt(300)),
     Some(JInt(-5)), Some(JFloat("50.5")), Some(JStr("100"))}
KelvinMembers ==
    {None, Some(JInt(2700)), Some(JInt(65535)), Some(JInt(70000)), Some(JInt(-1)),
     Some(JStr("2700"))}
ChannelMembers ==
    {None, Some(JInt(0)), Some(JInt(10)), Some(JInt(255)), Some(JInt(300)), Some(JInt(-1)),
     Some(JFloat("10.5"))}
ColorMembers ==
    {None, Some(JStr("red")), Some(JNull)}
        \cup {Some(Object([r |-> r, g |-> g, b |-> b])) :
                 r \in ChannelMembers, g \in ChannelMembers, b \in ChannelMembers}
CmdMembers ==
    {None, Some(JStr("scan")), Some(JStr("devStatus")), Some(JStr("turn")),
     Some(JStr("SCAN")), Some(JInt(1)), Some(JNull)}

\* the data of scan responses
ScanData ==
    {Object([device |-> device, deviceName |-> name, sku |-> sku, ip |-> ip,
             musicMode |-> music]) :
        device \in DeviceMembers, name \in NameMembers, sku \in SkuMembers,
        ip \in IpMembers, music \in {None, Some(JBool(FALSE))}}

\* the data of devStatus responses: the power state, the numbers, the colour
\* and the names are varied in turn
StatusData ==
    {Object([device |-> device, onOff |-> onOff, musicMode |-> music, mode |-> mode]) :
        device \in {None, Some(JStr("ABC123")), Some(JInt(7))}, onOff \in OnOffMembers,
        music \in MusicModeMembers, mode \in ModeMembers}
    \cup
    {Object([device |-> Some(JStr("ABC123")), onOff |-> Some(JInt(1)),
             brightness |-> brightness, colorTemInKelvin |-> kelvin]) :
        brightness \in BrightnessMembers, kelvin \in KelvinMembers}
    \cup
    {Object([device |-> Some(JStr("ABC123")), color |-> color]) : color \in ColorMembers}
    \cup
    {Object([device |-> Some(JStr("XYZ789")), deviceName |-> name, sku |-> sku, ip |-> ip]) :
        name \in NameMembers, sku \in SkuMembers, ip \in IpMembers}

\* data that is absent, is no object, or is the data of a device
EnvelopeData ==
    {None, Some(JStr("ABC123")), Some(JNull), Some(JInt(3)),
     Some(Object([device |-> Some(JStr("ABC123")), onOff |-> Some(JInt(1))]))}

\* the values parse_device_response is called with
Responses ==
    {Message(Some(JStr("scan")), Some(data)) : data \in ScanData}
    \cup {Message(Some(JStr("devStatus")), Some(data)) : data \in StatusData}
    \cup {Message(cmd, data) : cmd \in CmdMembers, data \in EnvelopeData}
    \cup {JNull, JStr("msg"), JInt(1), Object([msg |-> None]),
          Object([msg |-> Some(JStr("scan"))]), Object([msg |-> Some(JNull)]),
          Object([cmd |-> Some(JStr("scan")),
                  data |-> Some(Object([device |-> Some(JStr("ABC123"))]))])}

SrcAddrs == {Addr("192.168.1.50", 4001), Addr("10.0.0.9", 4002)}

ParserInputs == [response : Responses, src_addr : SrcAddrs]

ParserInit ==
    /\ Idle
    /\ input \in ParserInputs
    /\ output = Pending
    /\ NoAuth

\* parse_device_response(&response, &src_addr)
Parse ==
    /\ output = Pending
    /\ output' = parse_device_response(input.response, input.src_addr)
    /\ UNCHANGED <<input, state_devices, lock, pc, call, devices, elapsed, waited,
                   result, bound, net, history, auth>>

\* the next call
NextInput ==
    /\ output # Pending
    /\ input' \in ParserInputs
    /\ output' = Pending
    /\ UNCHANGED <<state_devices, lock, pc, call, devices, elapsed, waited,
                   result, bound, net, history, auth>>

ParserNext == Parse \/ NextInput

ParserSpec == ParserInit /\ [][ParserNext]_vars

(***************************************************************************)
(* spotify_auth.rs: the PKCE code verifier.  A command runs under the      *)
(* mutex of PKCEState.code_verifier from its first statement to its        *)
(* return, so each call is one step.                                       *)
(***************************************************************************)
\* the calls of the code verifier commands that are followed
MaxCalls == 5

\* the values of the argument code_verifier
CodeVerifiers == {"verifier-1", "verifier-2"}

\* the value ()
Unit == <<>>

\* the variables of the commands of govee.rs
govee == <<state_devices, lock, pc, call, devices, elapsed, waited, result, bound, net,
           history>>

\* a call of a command, its argument if it has one, and what it returned
Called(cmd, arg, res) == [cmd |-> cmd, arg |-> arg, result |-> res]

\* store_code_verifier: *verifier = Some(code_verifier); Ok(())
store_code_verifier(verifier) ==
    /\ Len(calls) < MaxCalls
    /\ code_verifier' = Some(verifier)
    /\ calls' = Append(calls, Called("store_code_verifier", Some(verifier), Ok(Unit)))
    /\ UNCHANGED <<govee, parser, tokens>>

\* get_code_verifier with clone() in the place of take(): the value stays
\* stored
get_code_verifierKeeps ==
    /\ Len(calls) < MaxCalls
    /\ code_verifier' = code_verifier
    /\ calls' = Append(calls, Called("get_code_verifier", None,
                                     IF IsSome(code_verifier)
                                     THEN Ok(code_verifier.v)
                                     ELSE Err("No code verifier found")))
    /\ UNCHANGED <<govee, parser, tokens>>

\* get_code_verifier: verifier.take().ok_or_else(|| "No code verifier found")?
get_code_verifier ==
    /\ Len(calls) < MaxCalls
    /\ code_verifier' = None
    /\ calls' = Append(calls, Called("get_code_verifier", None,
                                     IF IsSome(code_verifier)
                                     THEN Ok(code_verifier.v)
                                     ELSE Err("No code verifier found")))
    /\ UNCHANGED <<govee, parser, tokens>>

VerifierNext ==
    \/ \E verifier \in CodeVerifiers : store_code_verifier(verifier)
    \/ get_code_verifier

VerifierSpec == Init /\ [][VerifierNext]_vars

(***************************************************************************)
(* spotify_auth.rs: the token store.  A command runs under the mutex of    *)
(* SpotifyAuthState.token from its lock() to its return, so each call is   *)
(* one step.  The keyring and the token file are outside the process: the  *)
(* keyring can become unreachable and the storage directory read-only, and *)
(* both can hold what an earlier run of the program left there.  The       *)
(* configuration directory can be determined (HOME or APPDATA is set).     *)
(***************************************************************************)
\* the clock values that are followed, in seconds
MaxNow == 2

AccessTokens == {"access-1"}
RefreshTokens == {None, Some("refresh-1")}
\* the values of the argument expires_in, in seconds
ExpiresIn == {0, 1}

SpotifyToken(access_token, refresh_token, expires_at) ==
    [access_token |-> access_token, refresh_token |-> refresh_token,
     expires_at |-> expires_at]

\* serde_json::to_string(token)
to_string(tok) == JsonBytes(tok)
\* serde_json::from_str::<SpotifyToken>(&json)
from_str(json) == IF json.json THEN Ok(json.value) ELSE Err("Failed to deserialize token")

\* save_to_keyring: Entry::new, to_string, set_password; the result and the
\* password stored afterwards
save_to_keyring(tok) ==
    IF keyring_available
    THEN [result |-> Ok(Unit), keyring |-> Some(to_string(tok))]
    ELSE [result |-> Err("Failed to save to keyring"), keyring |-> keyring]

\* load_from_keyring: Entry::new, get_password, from_str
load_from_keyring ==
    IF ~keyring_available THEN Err("Failed to load from keyring")
    ELSE IF keyring = None THEN Ok(None)
    ELSE IF from_str(keyring.v).ok THEN Ok(Some(from_str(keyring.v).v))
    ELSE from_str(keyring.v)

\* delete_from_keyring: Entry::new, delete_credential; NoEntry is Ok
delete_from_keyring ==
    IF keyring_available
    THEN [result |-> Ok(Unit), keyring |-> None]
    ELSE [result |-> Err("Failed to delete from keyring"), keyring |-> keyring]

\* save_to_file: storage_dir(true), to_string, fs::write
save_to_file(tok) ==
    IF file_writable
    THEN [result |-> Ok(Unit), file |-> Some(to_string(tok))]
    ELSE [result |-> Err("Failed to write token file"), file |-> file]

\* load_from_file: Ok(None) without the file, else read_to_string and from_str
load_from_file ==
    IF file = None THEN Ok(None)
    ELSE IF from_str(file.v).ok THEN Ok(Some(from_str(file.v).v))
    ELSE Err("Failed to deserialize token file")

\* delete_file: fs::remove_file when the file exists
delete_file ==
    IF file = None THEN [result |-> Ok(Unit), file |-> None]
    ELSE IF file_writable THEN [result |-> Ok(Unit), file |-> None]
    ELSE [result |-> Err("Failed to delete token file"), file |-> file]

\* load_persisted_token: the token of the keyring, else what load_from_file
\* returns
load_persisted_token ==
    IF load_from_keyring.ok /\ IsSome(load_from_keyring.v)
    THEN load_from_keyring
    ELSE load_from_file

\* the token is expired and cannot be refreshed
ExpiredForGood(tok) == now >= tok.expires_at /\ ~IsSome(tok.refresh_token)

\* what get_spotify_token leaves in state.token: the token of the storage
\* when there was none in memory and one could be loaded
GetSpotifyTokenHydrates ==
    IF token = None /\ load_persisted_token.ok THEN load_persisted_token.v ELSE token

\* what get_spotify_token returns
GetSpotifyTokenReturns ==
    LET t == GetSpotifyTokenHydrates
    IN  IF IsSome(t) /\ ExpiredForGood(t.v) THEN Ok(None) ELSE Ok(t)

\* what is_authenticated leaves in state.token
IsAuthenticatedHydrates ==
    IF token = None /\ load_persisted_token.ok THEN load_persisted_token.v ELSE token

\* IsAuthenticatedReturns without the refresh token: an expired token is
\* not authenticated
IsAuthenticatedReturnsUnexpired ==
    IF token = None /\ ~load_persisted_token.ok THEN Err(load_persisted_token.err)
    ELSE LET t == IsAuthenticatedHydrates
         IN  IF IsSome(t) THEN Ok(now < t.v.expires_at) ELSE Ok(FALSE)

\* what is_authenticated returns
IsAuthenticatedReturns ==
    IF token = None /\ ~load_persisted_token.ok THEN Err(load_persisted_token.err)
    ELSE LET t == IsAuthenticatedHydrates
         IN  IF IsSome(t)
             THEN Ok(now < t.v.expires_at \/ IsSome(t.v.refresh_token))
             ELSE Ok(FALSE)

\* the command returns
Returned(cmd, res) == [cmd |-> cmd, result |-> res]

\* store_spotify_token: the token is stored in memory, then in the keyring
\* and in the file; a failure to persist is a warning
store_spotify_token(access_token, refresh_token, expires_in) ==
    LET tok == SpotifyToken(access_token, refresh_token, now + expires_in)
    IN  /\ token' = Some(tok)
        /\ keyring' = save_to_keyring(tok).keyring
        /\ file' = save_to_file(tok).file
        /\ returned' = Returned("store_spotify_token", Ok(Unit))
        /\ logged_out' = FALSE
        /\ UNCHANGED <<keyring_available, file_writable, now, govee, parser, pkce>>

get_spotify_token ==
    /\ token' = GetSpotifyTokenHydrates
    /\ returned' = Returned("get_spotify_token", GetSpotifyTokenReturns)
    /\ UNCHANGED <<keyring, file, keyring_available, file_writable, now, logged_out,
                   govee, parser, pkce>>

is_authenticated ==
    /\ token' = IsAuthenticatedHydrates
    /\ returned' = Returned("is_authenticated", IsAuthenticatedReturns)
    /\ UNCHANGED <<keyring, file, keyring_available, file_writable, now, logged_out,
                   govee, parser, pkce>>

\* logout: the token is cleared in memory, then deleted from the keyring
\* and the file; a failure to delete is a warning
logout ==
    /\ token' = None
    /\ keyring' = delete_from_keyring.keyring
    /\ file' = delete_file.file
    /\ returned' = Returned("logout", Ok(Unit))
    /\ logged_out' = TRUE
    /\ UNCHANGED <<keyring_available, file_writable, now, govee, parser, pkce>>

\* a second passes
ClockTick ==
    /\ now < MaxNow
    /\ now' = now + 1
    /\ UNCHANGED <<token, keyring, file, keyring_available, file_writable, returned,
                   logged_out, govee, parser, pkce>>

\* the keyring becomes unreachable, or reachable again
KeyringChanges ==
    /\ keyring_available' = ~keyring_available
    /\ UNCHANGED <<token, keyring, file, file_writable, now, returned, logged_out,
                   govee, parser, pkce>>

\* the storage directory becomes read-only, or writable again
StorageChanges ==
    /\ file_writable' = ~file_writable
    /\ UNCHANGED <<token, keyring, file, keyring_available, now, returned, logged_out,
                   govee, parser, pkce>>

\* what an earlier run can have left in the keyring and in the file: a
\* token, and in the file a text that is no token
PersistedTokens ==
    {SpotifyToken("access-0", refresh_token, 1) : refresh_token \in RefreshTokens}
Garbage == RawBytes("{\"access_token\":")

\* SpotifyAuthState::new(): the token that load_persisted_token returns, None
\* when it returns none or fails
AuthInit ==
    /\ Idle
    /\ input = NoInput
    /\ output = Pending
    /\ code_verifier = None
    /\ calls = <<>>
    /\ keyring \in {None} \cup {Some(to_string(tok)) : tok \in PersistedTokens}
    /\ file \in {None, Some(Garbage)} \cup {Some(to_string(tok)) : tok \in PersistedTokens}
    /\ keyring_available \in BOOLEAN
    /\ file_writable \in BOOLEAN
    /\ now = 0
    /\ token = IF load_persisted_token.ok THEN load_persisted_token.v ELSE None
    /\ returned = NoCall
    /\ logged_out = FALSE

AuthNext ==
    \/ \E access_token \in AccessTokens, refresh_token \in RefreshTokens,
          expires_in \in ExpiresIn :
            store_spotify_token(access_token, refresh_token, expires_in)
    \/ get_spotify_token
    \/ is_authenticated
    \/ logout
    \/ ClockTick
    \/ KeyringChanges
    \/ StorageChanges

AuthSpec == AuthInit /\ [][AuthNext]_vars

(***************************************************************************)
(* Properties.                                                             *)
(***************************************************************************)
DiscoverCall(p) == call[p].cmd = "govee_discover_devices"
SendCall(p) == call[p].cmd = "govee_send_lan_command"
\* the command of p returns Ok(..) / Err(..) in this state
ReturnsOk(p) == pc[p] = "done" /\ result[p].v.ok
ReturnsErr(p) == pc[p] = "done" /\ ~result[p].v.ok

\* the devices among the decoded responses, in their order
RECURSIVE DevicesOf(_)
DevicesOf(resps) ==
    IF resps = <<>> THEN <<>>
    ELSE (IF IsSome(Head(resps)) THEN <<Head(resps).v>> ELSE <<>>) \o DevicesOf(Tail(resps))

\* the last device of the list with the id
LastWithId(list, id) ==
    LET at == {i \in 1..Len(list) : list[i].id = id}
    IN  list[CHOOSE i \in at : \A j \in at : j <= i]

\* the registry agrees with the list: for every id of the list it holds the
\* last device of the list with that id
RegistryHoldsLast(list) ==
    \A i \in 1..Len(list) :
        HashMapGet(state_devices, list[i].id) = Some(LastWithId(list, list[i].id))

\* C1, as claimed: when govee_discover_devices returns Ok and no clear ran
\* during the call, the returned list has one element per response that
\* parsed to a device, duplicates of an id included, and for every id of the
\* list the registry holds the last device of the list with that id.
C1_AsClaimed ==
    \A p \in Callers :
        (DiscoverCall(p) /\ ReturnsOk(p) /\ ~cleared[p]) =>
            /\ result[p].v.v = DevicesOf(responses[p])
            /\ RegistryHoldsLast(result[p].v.v)

\* C1, amended: when govee_discover_devices returns Ok, the returned list has
\* one element per response that parsed to a device, duplicates of an id
\* included; and when neither a clear nor an insert of another discover call
\* ran during the call, the registry holds, for every id of the list, the
\* last device of the list with that id.
C1_ReturnedListAndRegistry ==
    \A p \in Callers :
        (DiscoverCall(p) /\ ReturnsOk(p)) =>
            /\ result[p].v.v = DevicesOf(responses[p])
            /\ (~cleared[p] /\ ~foreign[p]) => RegistryHoldsLast(result[p].v.v)

\* a discover call returns two different devices of one id, undisturbed
C1_Witness ==
    \E p \in Callers :
        /\ DiscoverCall(p) /\ ReturnsOk(p) /\ ~cleared[p] /\ ~foreign[p]
        /\ Len(result[p].v.v) = 2
        /\ result[p].v.v[1].id = result[p].v.v[2].id
        /\ result[p].v.v[1] # result[p].v.v[2]

\* the ids of the entries of the registry
Ids(map) == {e.value.id : e \in BagToSet(map)}
\* the entries of the registry whose device has the id
WithId(map, id) == {e \in BagToSet(map) : e.value.id = id}

\* the registry holds one entry per device id, stored under that id
UniqueIds ==
    \A e \in BagToSet(state_devices) :
        /\ CopiesIn(e, state_devices) = 1
        /\ e.key = e.value.id
        /\ WithId(state_devices, e.value.id) = {e}

\* the step in which caller p stores the device it pushed last
Inserts(p) == pc[p] = "insert" /\ pc'[p] # "insert"

\* after the insert the only entry with the id of the device is the device
\* itself, and the entries with other ids are as they were
InsertReplaces(p) ==
    Inserts(p) =>
        /\ WithId(state_devices', Device(p).id) = {Entry(Device(p).id, Device(p))}
        /\ CopiesIn(Entry(Device(p).id, Device(p)), state_devices') = 1
        /\ \A e \in BagToSet(state_devices) \cup BagToSet(state_devices') :
               e.value.id # Device(p).id =>
                   CopiesIn(e, state_devices') = CopiesIn(e, state_devices)

\* C2: the registry holds at most one entry per device id at all times, and
\* an insert of a device leaves exactly that device under its id, whatever
\* was stored under the id before (no field of the earlier device survives),
\* and leaves the entries with other ids unchanged.
C2_UniqueIdLastWriteWins ==
    /\ []UniqueIds
    /\ [][\A p \in Callers : InsertReplaces(p)]_vars

\* a discover call has replaced the device it stored under an id by a
\* different device of the same id
C2_Witness ==
    \E p \in Callers :
        /\ pc[p] = "recv_from" /\ Len(devices[p]) = 2
        /\ devices[p][1].id = devices[p][2].id
        /\ devices[p][1].model # devices[p][2].model
        /\ state_devices = SetToBag({Entry(devices[p][2].id, devices[p][2])})

\* the insert of a device that is stored already, as it is, leaves the
\* registry as it was
InsertAgain(p) ==
    (Inserts(p) /\ BagIn(Entry(Device(p).id, Device(p)), state_devices)) =>
        state_devices' = state_devices

\* the list holds exactly one device with the id
OnceIn(list, id) == Cardinality({i \in 1..Len(list) : list[i].id = id}) = 1

\* C3: the upsert is idempotent: an insert of a device that the registry
\* holds already leaves the registry in the state it had after the first
\* insert, and the list govee_get_all_devices returns has exactly one entry
\* for every id of the registry.
C3_UpsertIdempotent ==
    /\ [][\A p \in Callers : InsertAgain(p)]_vars
    /\ [](\A p \in Callers :
             (call[p].cmd = "govee_get_all_devices" /\ pc[p] = "done") =>
                 /\ Len(result[p].v) = Cardinality(Ids(state_devices))
                 /\ \A id \in Ids(state_devices) : OnceIn(result[p].v, id))

\* a discover call has stored the same device twice and govee_get_all_devices
\* then returns one device
C3_Witness ==
    \E p, q \in Callers :
        /\ DiscoverCall(p) /\ pc[p] = "recv_from" /\ Len(devices[p]) = 2
        /\ devices[p][1] = devices[p][2]
        /\ call[q].cmd = "govee_get_all_devices" /\ pc[q] = "done"
        /\ result[q].v = <<devices[p][1]>>

\* C4: govee_clear_devices leaves the registry empty, whatever it held, and
\* as long as nothing is stored after it govee_get_all_devices returns the
\* empty list and govee_get_device returns None for every id.
C4_ClearThenEmpty ==
    /\ [][\A p \in Callers :
             (pc[p] = "locked" /\ call[p].cmd = "govee_clear_devices" /\ pc'[p] = "done")
                 => state_devices' = EmptyBag]_vars
    /\ [](\A p \in Callers :
             (pc[p] = "done" /\ state_devices = EmptyBag) =>
                 /\ call[p].cmd = "govee_get_all_devices" => result[p].v = <<>>
                 /\ call[p].cmd = "govee_get_device" => result[p].v = None)

\* a clear ran after a discover call had stored a device, and
\* govee_get_all_devices or govee_get_device returns nothing
C4_Witness ==
    \E p, q \in Callers :
        /\ Discovering(p) /\ cleared[p] /\ ~foreign[p] /\ devices[p] # <<>>
        /\ pc[p] = "recv_from" /\ state_devices = EmptyBag
        /\ pc[q] = "done"
        /\ call[q].cmd \in {"govee_get_all_devices", "govee_get_device"}

\* the call of p is in its receive window, or returns from it
InWindow(p) ==
    DiscoverCall(p) /\ (pc[p] \in {"recv_from", "lock", "insert"} \/ ReturnsOk(p))

BroadcastAddr(p) == Addr("255.255.255.255", call[p].discovery_port)
MulticastAddr(p) == Addr(call[p].multicast_group, call[p].discovery_port)
\* the sends of the call of p that succeeded
Succeeded(p) == {i \in 1..Len(sent[p]) : sent[p][i].ok}

\* C5: in a discover call the probe is sent to the broadcast address first;
\* it is sent to the multicast group only after the broadcast send failed,
\* and at most once; when the multicast send fails too the call returns an
\* error; and in a call that is in its receive window, or returns Ok from
\* it, exactly one send of the probe succeeded, the last one.
C5_ProbeSentOnce ==
    \A p \in Callers :
        DiscoverCall(p) =>
            /\ Len(sent[p]) <= 2
            /\ \A i \in 1..Len(sent[p]) : sent[p][i].bytes = discovery_msg
            /\ Len(sent[p]) >= 1 => sent[p][1].to = BroadcastAddr(p)
            /\ Len(sent[p]) = 2 => (~sent[p][1].ok /\ sent[p][2].to = MulticastAddr(p))
            /\ (Len(sent[p]) = 2 /\ ~sent[p][2].ok) =>
                   (ReturnsErr(p) /\ result[p].v.err = "Failed to send discovery message")
            /\ InWindow(p) => Succeeded(p) = {Len(sent[p])}
            /\ Succeeded(p) = {} => ~InWindow(p)

\* a discover call is in its receive window after the broadcast send failed
\* and the multicast send succeeded
C5_Witness ==
    \E p \in Callers :
        /\ DiscoverCall(p) /\ pc[p] = "recv_from"
        /\ Len(sent[p]) = 2 /\ ~sent[p][1].ok /\ sent[p][2].ok
        /\ sent[p][2].to.ip = "239.255.255.250"

\* the step in which the call of p receives a datagram that yields no device
Skips(p) ==
    /\ pc[p] = "recv_from"
    /\ Len(responses'[p]) = Len(responses[p]) + 1
    /\ ~IsSome(responses'[p][Len(responses'[p])])

\* C6: a datagram that is not JSON, lacks the device field or carries an
\* unknown cmd yields no device; receiving it changes neither the list nor
\* the registry and the call goes on or returns Ok; a discover call that
\* has received a datagram never returns an error; and the list holds the
\* devices of all datagrams received, those after a skipped one included,
\* each of them stored in the registry while no clear and no other call
\* interferes.
C6_BadDatagramsSkipped ==
    /\ [](\A dgram \in {NotJson, NoDeviceField, UnknownCmd} : ParseDatagram(dgram) = None)
    /\ [][\A p \in Callers :
            Skips(p) =>
                /\ devices'[p] = devices[p]
                /\ state_devices' = state_devices
                /\ pc'[p] = "recv_from" \/ (pc'[p] = "done" /\ result'[p].v.ok)]_vars
    /\ [](\A p \in Callers :
            DiscoverCall(p) =>
                /\ (pc[p] = "done" /\ responses[p] # <<>>) => result[p].v.ok
                /\ InWindow(p) => devices[p] = DevicesOf(responses[p])
                /\ (pc[p] = "recv_from" /\ ~cleared[p] /\ ~foreign[p]) =>
                       \A i \in 1..Len(devices[p]) :
                           IsSome(HashMapGet(state_devices, devices[p][i].id)))

\* a discover call returns the device of a datagram it received after a
\* datagram it skipped, and the registry holds that device
C6_Witness ==
    \E p \in Callers :
        /\ DiscoverCall(p) /\ ReturnsOk(p)
        /\ Len(responses[p]) = 2 /\ responses[p][1] = None /\ IsSome(responses[p][2])
        /\ result[p].v.v = <<responses[p][2].v>>
        /\ HashMapGet(state_devices, responses[p][2].v.id) = responses[p][2]

\* C7, as claimed: a discover call with timeout T returns Ok no later than T
\* ms after the start of its receive loop (the steps of the call other than
\* the blocking recv_from take no time here, so the overhead is zero).
C7_ReturnsWithinTimeout ==
    \A p \in Callers :
        (DiscoverCall(p) /\ ReturnsOk(p)) => elapsed[p] <= call[p].timeout

\* the acknowledgement of a command that expects no response
Acknowledgement == Ok(JObj([success |-> JBool(TRUE)]))

\* C8: govee_send_lan_command without expect_response never waits in
\* recv_from: it sends the message at most once, receives nothing, takes no
\* time, and returns the acknowledgement exactly when its send succeeded.
C8_NoResponseExpected ==
    \A p \in Callers :
        (SendCall(p) /\ ~call[p].expect_response) =>
            /\ pc[p] = "done"
            /\ responses[p] = <<>>
            /\ elapsed[p] = 0
            /\ Len(sent[p]) <= 1
            /\ \A i \in 1..Len(sent[p]) :
                   /\ sent[p][i].bytes = call[p].message
                   /\ sent[p][i].to = Addr(call[p].device_ip, call[p].port)
            /\ (Succeeded(p) = {1}) <=> (result[p].v.ok /\ result[p].v.v = Acknowledgement.v)
            /\ (Succeeded(p) = {}) <=> ~result[p].v.ok

\* a command that expects no response returns the acknowledgement
C8_Witness ==
    \E p \in Callers :
        /\ SendCall(p) /\ ~call[p].expect_response /\ pc[p] = "done"
        /\ result[p].v.ok /\ result[p].v.v = Acknowledgement.v /\ Len(sent[p]) = 1

\* C9: govee_send_lan_command with expect_response sends the message at most
\* once, waits for a reply only after that send succeeded, and returns
\* Ok(reply) exactly when a datagram arrived before the read timeout of 2 s
\* and is JSON, the reply being its value; otherwise, the read timeout or
\* a datagram that is not JSON included, it returns an error.
C9_ResponseExpected ==
    \A p \in Callers :
        (SendCall(p) /\ call[p].expect_response) =>
            /\ Len(sent[p]) <= 1
            /\ \A i \in 1..Len(sent[p]) :
                   /\ sent[p][i].bytes = call[p].message
                   /\ sent[p][i].to = Addr(call[p].device_ip, call[p].port)
            /\ Len(responses[p]) <= 1
            /\ responses[p] # <<>> => (Succeeded(p) = {1} /\ waited[p] < CmdTimeoutMs)
            /\ pc[p] = "cmd_recv_from" => (Succeeded(p) = {1} /\ responses[p] = <<>>)
            /\ pc[p] = "done" =>
                   /\ result[p].v.ok <=> (responses[p] # <<>> /\ responses[p][1].ok)
                   /\ result[p].v.ok => result[p].v.v = responses[p][1].v
                   /\ (responses[p] # <<>> /\ ~responses[p][1].ok) =>
                          result[p].v.err = "Failed to parse response"

\* a command that expects a response returns the reply that arrived 1 s
\* after the send
C9_Witness ==
    \E p \in Callers :
        /\ SendCall(p) /\ call[p].expect_response /\ ReturnsOk(p)
        /\ waited[p] = 1000
        /\ result[p].v.v = StatusABC.bytes.value

\* the errors of the setup steps of govee_discover_devices
SetupErrors ==
    {"Failed to bind response socket", "Failed to set socket timeout",
     "Failed to bind send socket", "Failed to enable broadcast",
     "Failed to serialize discovery message"}

\* the step in which the call of p fails in its setup
SetupFails(p) ==
    /\ pc[p] \in {"idle", "set_read_timeout"}
    /\ pc'[p] = "done"
    /\ call'[p].cmd = "govee_discover_devices"

\* C10: a discover call that returns the error of a setup step has sent no
\* probe, has received nothing, has spent no time in the receive loop and
\* has collected no device; the step that fails ends the call (no step is
\* repeated) and leaves the registry and its lock as they were, as do all
\* steps of the setup.
C10_SetupFailure ==
    /\ [](\A p \in Callers :
            (DiscoverCall(p) /\ ReturnsErr(p) /\ result[p].v.err \in SetupErrors) =>
                /\ sent[p] = <<>>
                /\ responses[p] = <<>>
                /\ devices[p] = <<>>
                /\ elapsed[p] = 0)
    /\ [](\A p \in Callers :
            (DiscoverCall(p) /\ pc[p] = "set_read_timeout") =>
                (sent[p] = <<>> /\ responses[p] = <<>> /\ devices[p] = <<>> /\ lock # p))
    /\ [][\A p \in Callers :
            SetupFails(p) =>
                /\ result'[p].v.err \in SetupErrors
                /\ state_devices' = state_devices
                /\ lock' = lock]_vars

\* a discover call returns the error of set_read_timeout while the registry
\* holds a device
C10_Witness ==
    \E p \in Callers :
        /\ DiscoverCall(p) /\ ReturnsErr(p)
        /\ result[p].v.err = "Failed to set socket timeout"
        /\ call[p].timeout = 0
        /\ state_devices # EmptyBag

\* C11, as claimed: a discover call whose multicast group does not parse as
\* a socket address never enters its receive window and never returns a list
\* of devices: it returns an error, whether the broadcast send succeeds or not.
C11_UnparsableAddressFatal ==
    \A p \in Callers :
        (DiscoverCall(p)
            /\ ~ParseSocketAddr(call[p].multicast_group, call[p].discovery_port).ok) =>
                /\ ~InWindow(p)
                /\ pc[p] = "done" => ~result[p].v.ok

\* the caller is in a socket call, or between the socket calls of its setup
InSocketCall(p) ==
    pc[p] \in {"set_read_timeout", "send_to", "recv_from", "cmd_recv_from"}

\* C12: the lock of the registry is held only by a discover call that is
\* about to store the one device it has just parsed, or by a registry
\* command at its map access, never by a caller in a socket call; the
\* holder releases it in its next step, which is the map access; and no
\* time passes while the lock is held, so no caller waits for the lock for
\* any part of a receive timeout.
C12_LockNotHeldInSocketCall ==
    /\ [](\A p \in Callers :
            /\ lock = p => (pc[p] \in {"insert", "locked"} /\ ~InSocketCall(p))
            /\ pc[p] \in {"insert", "locked"} => lock = p)
    /\ [][\A p \in Callers :
            (lock = p /\ pc'[p] # pc[p]) =>
                (lock' = 0 /\ pc'[p] \in {"recv_from", "done"})]_vars
    /\ [][(\E p \in Callers : Blocked(p) /\ waited'[p] > waited[p]) => lock = 0]_vars

\* a discover call holds the lock to store its device while another caller
\* has been blocked in a recv_from for 1 s
C12_Witness ==
    \E p, q \in Callers :
        /\ DiscoverCall(p) /\ pc[p] = "insert" /\ lock = p
        /\ Blocked(q) /\ waited[q] = 1000

\* the devices the datagrams of the network parse to: the complete devices
ParsedDevices == {ParseDatagram(dgram).v : dgram \in {d \in Datagrams : IsSome(ParseDatagram(d))}}

Parsed == output # Pending
InputMsg == Get(input.response, "msg")
InputCmd == IF IsSome(InputMsg) THEN Get(InputMsg.v, "cmd") ELSE None
InputData == IF IsSome(InputMsg) THEN Get(InputMsg.v, "data") ELSE None
\* the member of the data of the payload
DataMember(key) ==
    IF IsSome(InputData) /\ InputData.v.t = "obj" /\ key \in DOMAIN InputData.v.v
    THEN Some(InputData.v.v[key])
    ELSE None
\* the call has returned and the payload has the cmd, a string, and a data
ParsedCmd(cmd) == Parsed /\ InputCmd = Some(JStr(cmd)) /\ IsSome(InputData)
IsString(member) == IsSome(member) /\ member.v.t = "str"

\* C14: for a scan payload whose data.device is a string the parse yields a
\* device with that string as id, the five capabilities true, online true
\* and lan_api_enabled true; for a scan payload whose data.device is absent
\* or no string it yields None.
C14_ScanParse ==
    ParsedCmd("scan") =>
        IF IsString(DataMember("device"))
        THEN /\ IsSome(output)
             /\ output.v.id = DataMember("device").v.v
             /\ output.v.capabilities =
                    [power_control |-> TRUE, brightness_control |-> TRUE,
                     color_control |-> TRUE, color_temperature_control |-> TRUE,
                     music_mode |-> TRUE]
             /\ output.v.online /\ output.v.lan_api_enabled
        ELSE output = None

\* a scan payload with musicMode false and without a name has been parsed to
\* a device
C14_Witness ==
    /\ ParsedCmd("scan") /\ IsSome(output) /\ output.v.id = "ABC123"
    /\ DataMember("musicMode") = Some(JBool(FALSE))
    /\ DataMember("deviceName") = None

\* C15: for a devStatus payload that parses to a device, state.on is true
\* exactly when data.onOff is the integer 1; it is false for every other
\* integer, for a value that is no integer and for an absent onOff.
C15_OnIffOnOffIsOne ==
    (ParsedCmd("devStatus") /\ IsSome(output)) =>
        (output.v.state.on <=> DataMember("onOff") = Some(JInt(1)))

\* a devStatus payload with onOff 1.0, which is no integer, has been parsed
\* to a device that is off
C15_Witness ==
    /\ ParsedCmd("devStatus") /\ IsSome(output)
    /\ DataMember("onOff") = Some(JFloat("1.0"))
    /\ ~output.v.state.on

\* C16: the parse yields None, which is no error, for a payload without
\* msg, without msg.cmd or with a cmd that is no string, without msg.data or
\* with a data that is no object, and for a cmd other than "scan" and
\* "devStatus".
C16_NoDevice ==
    Parsed =>
        ((\/ ~IsSome(InputMsg)
          \/ ~IsString(InputCmd)
          \/ ~IsSome(InputData)
          \/ InputData.v.t # "obj"
          \/ InputCmd.v.v \notin {"scan", "devStatus"}) => output = None)

\* a payload with the cmd "turn" and the data of a device has been parsed to
\* None
C16_Witness ==
    /\ Parsed /\ output = None
    /\ InputCmd = Some(JStr("turn"))
    /\ IsString(DataMember("device"))

\* the channel of data.color, None when the colour is no object or lacks it
Channel(key) ==
    LET color == DataMember("color")
    IN  IF IsSome(color) /\ color.v.t = "obj" /\ key \in DOMAIN color.v.v
        THEN Some(color.v.v[key])
        ELSE None
InByte(member) == IsSome(member) /\ member.v.t = "int" /\ member.v.v \in 0..255

\* C17: for a devStatus payload that parses to a device: a channel r, g or
\* b of data.color that is an integer in 0..255 is the channel of the colour,
\* a channel that is absent is 255 whatever the other channels are, and
\* without data.color the colour is (255, 255, 255).
C17_ColorParse ==
    (ParsedCmd("devStatus") /\ IsSome(output)) =>
        /\ \A key \in {"r", "g", "b"} :
               /\ InByte(Channel(key)) => output.v.state.color[key] = Channel(key).v.v
               /\ Channel(key) = None => output.v.state.color[key] = 255
        /\ DataMember("color") = None =>
               output.v.state.color = [r |-> 255, g |-> 255, b |-> 255]

\* a colour with r = 10, without g and with b = 0 has been parsed to
\* (10, 255, 0)
C17_Witness ==
    /\ ParsedCmd("devStatus") /\ IsSome(output)
    /\ Channel("r") = Some(JInt(10)) /\ Channel("g") = None /\ Channel("b") = Some(JInt(0))
    /\ output.v.state.color = [r |-> 10, g |-> 255, b |-> 0]

(***************************************************************************)
(* Properties of the receive loop, in Spec.                                *)
(***************************************************************************)
IsPrefix(short, long) ==
    Len(short) <= Len(long) /\ \A i \in 1..Len(short) : short[i] = long[i]

\* the step in which the call of p receives a datagram that yields a device
Receives(p) == pc[p] = "recv_from" /\ pc'[p] = "lock"

\* C18: within a discover call the list grows at its end only, by the
\* device of the datagram just received, so that the returned list is in
\* the order of arrival; and the stores follow that order: the device of a
\* datagram is stored in the step after its receipt, before the next
\* datagram is received, so when a device is received all devices received
\* before it have been stored already.
C18_ArrivalOrder ==
    /\ [][\A p \in Callers :
            (Discovering(p) /\ pc'[p] # "idle") =>
                (IsPrefix(devices[p], devices'[p]) /\ IsPrefix(responses[p], responses'[p]))]_vars
    /\ [][\A p \in Callers :
            Receives(p) =>
                /\ devices'[p] = Append(devices[p], responses'[p][Len(responses'[p])].v)
                /\ (~cleared[p] /\ ~foreign[p]) => RegistryHoldsLast(devices[p])]_vars
    /\ [][\A p \in Callers :
            (pc[p] = "lock" /\ pc'[p] # "lock") =>
                (pc'[p] = "insert" /\ devices'[p] = devices[p])]_vars
    /\ [](\A p \in Callers :
            (DiscoverCall(p) /\ ReturnsOk(p)) =>
                \A i, j \in 1..Len(responses[p]) :
                    (i < j /\ IsSome(responses[p][i]) /\ IsSome(responses[p][j])) =>
                        \E k, l \in 1..Len(result[p].v.v) :
                            /\ k < l
                            /\ result[p].v.v[k] = responses[p][i].v
                            /\ result[p].v.v[l] = responses[p][j].v
                            /\ k = Len(DevicesOf(SubSeq(responses[p], 1, i)))
                            /\ l = Len(DevicesOf(SubSeq(responses[p], 1, j))))

\* a discover call returns the devices of two datagrams of different
\* devices in the order in which they arrived
C18_Witness ==
    \E p \in Callers :
        /\ DiscoverCall(p) /\ ReturnsOk(p)
        /\ Len(responses[p]) = 2 /\ IsSome(responses[p][1]) /\ IsSome(responses[p][2])
        /\ responses[p][1].v.id # responses[p][2].v.id
        /\ result[p].v.v = <<responses[p][1].v, responses[p][2].v>>

\* the step in which a recv_from of the call of p fails: the call moves on
\* from its recv_from and has received nothing
ReceiveFails(p) ==
    /\ pc[p] = "recv_from"
    /\ responses'[p] = responses[p]
    /\ (pc'[p] # "recv_from" \/ waited'[p] < waited[p])

\* C19: a discover call that has sent its probe never returns an error: a
\* recv_from that fails, by its read timeout or otherwise, changes neither
\* the list nor the registry; when it fails before the timeout of the call
\* has elapsed the loop goes on with the next recv_from; the loop is left
\* only when the timeout has elapsed, and the call then returns Ok with the
\* devices collected so far.
C19_ReceiveNeverFails ==
    /\ [](\A p \in Callers :
            (DiscoverCall(p) /\ pc[p] = "done" /\ Succeeded(p) # {}) =>
                (result[p].v.ok /\ result[p].v.v = devices[p]
                    /\ elapsed[p] >= call[p].timeout))
    /\ [][\A p \in Callers :
            ReceiveFails(p) =>
                /\ devices'[p] = devices[p]
                /\ state_devices' = state_devices
                /\ IF elapsed[p] < call[p].timeout
                   THEN pc'[p] = "recv_from" /\ waited'[p] = 0 /\ result'[p] = None
                   ELSE pc'[p] = "done" /\ result'[p] = Some(Ok(devices[p]))]_vars

\* a discover call whose recv_from failed 1 s after the start of the loop,
\* for another reason than the read timeout, has gone on and returns Ok with
\* the empty list
C19_Witness ==
    \E p \in Callers :
        /\ DiscoverCall(p) /\ ReturnsOk(p)
        /\ responses[p] = <<>> /\ result[p].v.v = <<>>
        /\ elapsed[p] = 3000 /\ waited[p] = 2000

(***************************************************************************)
(* Termination, in FairSpec.                                               *)
(***************************************************************************)
\* C20: every discover call eventually returns, whatever its recv_from
\* calls yield: datagrams of devices, datagrams that are skipped, failures
\* at once, or nothing until the read timeout.
C20_DiscoverReturns ==
    \A p \in Callers :
        (DiscoverCall(p) /\ pc[p] # "done") ~> (DiscoverCall(p) /\ pc[p] = "done")

\* a discover call returns Ok after recv_from calls that yielded a device,
\* a datagram that is skipped and failures
C20_Witness ==
    \E p \in Callers :
        /\ DiscoverCall(p) /\ ReturnsOk(p)
        /\ Len(responses[p]) = 2 /\ IsSome(responses[p][1]) /\ ~IsSome(responses[p][2])
        /\ elapsed[p] = 3000

(***************************************************************************)
(* Properties of the registry over the commands, in Spec.                  *)
(***************************************************************************)
\* the step in which the command of p clears the registry
Clears(p) ==
    pc[p] = "locked" /\ call[p].cmd = "govee_clear_devices" /\ pc'[p] # "locked"

\* the commands that do not write to the registry
ReadOnlyCmds == {"govee_get_device", "govee_get_all_devices", "govee_send_lan_command"}

\* the step is a step of a command of p that does not write to the registry
ReadOnlyStep(p) ==
    pc'[p] # pc[p] /\ (call[p].cmd \in ReadOnlyCmds \/ call'[p].cmd \in ReadOnlyCmds)

\* C21: the registry changes only in the store of a discover call and in a
\* clear; the device stored is the one the call parsed from the datagram it
\* received last; a store adds the id of its device and leaves every entry
\* with another id as it was, so a discover call removes no entry of a
\* device that did not answer it; in a step that is no clear the set of ids
\* does not shrink; and no step of govee_get_device, govee_get_all_devices
\* and govee_send_lan_command changes the registry.
C21_EntriesCreatedAndRemoved ==
    /\ [][state_devices' # state_devices =>
            \E p \in Callers : (DiscoverCall(p) /\ Inserts(p)) \/ Clears(p)]_vars
    /\ [][\A p \in Callers :
            Inserts(p) =>
                /\ responses[p][Len(responses[p])] = Some(Device(p))
                /\ Ids(state_devices') = Ids(state_devices) \cup {Device(p).id}
                /\ \A e \in BagToSet(state_devices) :
                       e.value.id # Device(p).id =>
                           CopiesIn(e, state_devices') = CopiesIn(e, state_devices)]_vars
    /\ [][(\A p \in Callers : ~Clears(p)) =>
            Ids(state_devices) \subseteq Ids(state_devices')]_vars
    /\ [][\A p \in Callers : ReadOnlyStep(p) => state_devices' = state_devices]_vars

\* a discover call that only one device answered returns, undisturbed, while
\* the registry holds that device and the device of an earlier call
C21_Witness ==
    \E p \in Callers :
        /\ DiscoverCall(p) /\ ReturnsOk(p) /\ ~cleared[p] /\ ~foreign[p]
        /\ Len(result[p].v.v) = 1
        /\ Cardinality(Ids(state_devices)) = 2
        /\ result[p].v.v[1].id \in Ids(state_devices)

\* the step is a step of govee_send_lan_command called by p
SendStep(p) ==
    pc'[p] # pc[p] /\ (SendCall(p) \/ call'[p].cmd = "govee_send_lan_command")

\* the devices of the registry whose ip is the host
AtHost(map, host) == {e \in BagToSet(map) : e.value.ip = host}

\* C22: govee_send_lan_command does not touch the registry: none of its
\* steps changes the registry or its lock, whatever the outcome of the call
\* (acknowledgement, reply, timeout, another error) and whatever its target
\* address, and the call never holds the lock.
C22_SendBypassesRegistry ==
    /\ [](\A p \in Callers : SendCall(p) => lock # p)
    /\ [][\A p \in Callers :
            SendStep(p) => (state_devices' = state_devices /\ lock' = lock)]_vars

\* a command returns the reply of a device that is not in the registry,
\* which holds another device
C22_Witness ==
    \E p \in Callers :
        /\ SendCall(p) /\ ReturnsOk(p) /\ call[p].expect_response
        /\ result[p].v.v = StatusABC.bytes.value
        /\ state_devices # EmptyBag
        /\ AtHost(state_devices, call[p].device_ip) = {}
        /\ HashMapGet(state_devices, "ABC123") = None

(***************************************************************************)
(* Further properties of parse_device_response, in ParserSpec.             *)
(***************************************************************************)
\* the member is an integer that is not negative
IsNatural(member) == IsSome(member) /\ member.v.t = "int" /\ member.v.v >= 0

\* the number is the low bits of n: it is below the modulus and differs from
\* n by a multiple of it
LowBits(number, n, modulus) ==
    /\ number \in 0..(modulus - 1)
    /\ \E k \in 0..(n \div modulus) : n = k * modulus + number

\* the field is the coercion of the member to the range below the modulus
Coerced(field, member, modulus, default) ==
    /\ field \in 0..(modulus - 1)
    /\ (IsNatural(member) /\ member.v.v < modulus) => field = member.v.v
    /\ (IsNatural(member) /\ member.v.v >= modulus) =>
           (LowBits(field, member.v.v, modulus) /\ field # member.v.v)
    /\ ~IsNatural(member) => field = default

\* C23: a devStatus payload whose data.device is a string parses to a
\* device whatever its numeric fields are; state.brightness is in 0..255: it
\* is data.brightness when that is an integer in 0..255, its low 8 bits when
\* it is a larger integer, and 0 when it is absent, negative or no integer;
\* color_temperature is in 0..65535 in the same way from colorTemInKelvin,
\* with 5000 when that is absent, negative or no integer.
C23_NumericCoercion ==
    (ParsedCmd("devStatus") /\ IsString(DataMember("device"))) =>
        /\ IsSome(output)
        /\ Coerced(output.v.state.brightness, DataMember("brightness"), 256, 0)
        /\ Coerced(output.v.state.color_temperature, DataMember("colorTemInKelvin"),
                   65536, 5000)

\* a payload with brightness 300 and colorTemInKelvin 70000 has been parsed
\* to a device with brightness 44 and colour temperature 4464
C23_Witness ==
    /\ ParsedCmd("devStatus") /\ IsSome(output)
    /\ DataMember("brightness") = Some(JInt(300))
    /\ DataMember("colorTemInKelvin") = Some(JInt(70000))
    /\ output.v.state.brightness = 44
    /\ output.v.state.color_temperature = 4464

\* C24: the ip of the device a scan payload parses to is data.ip when that
\* is a string, and the host of the UDP source address when data.ip is
\* absent or no string; the ip of the device a devStatus payload parses to
\* is the host of the UDP source address, whether the payload has an ip or
\* not.
C24_DeviceIp ==
    /\ (ParsedCmd("scan") /\ IsSome(output)) =>
           output.v.ip = IF IsString(DataMember("ip"))
                         THEN DataMember("ip").v.v
                         ELSE input.src_addr.ip
    /\ (ParsedCmd("devStatus") /\ IsSome(output)) => output.v.ip = input.src_addr.ip

\* a devStatus payload with the ip 192.168.1.51, received from 10.0.0.9, has
\* been parsed to a device with the ip 10.0.0.9
C24_Witness ==
    /\ ParsedCmd("devStatus") /\ IsSome(output)
    /\ DataMember("ip") = Some(JStr("192.168.1.51"))
    /\ input.src_addr.ip = "10.0.0.9"
    /\ output.v.ip = "10.0.0.9"

\* C25: in every reachable state every entry of the registry is stored
\* under the id of its device and has lan_api_enabled = true.
C25_KeyIsIdAndLanEnabled ==
    \A e \in BagToSet(state_devices) :
        /\ e.key = e.value.id
        /\ e.value.lan_api_enabled = TRUE

\* the registry holds the device of a status report and the device of an
\* advertisement, each under its id, while a get or a get_all returns
C25_Witness ==
    /\ BagIn(Entry("ABC123", ParseDatagram(StatusABC).v), state_devices)
    /\ BagIn(Entry("XYZ789", ParseDatagram(ScanXYZ).v), state_devices)
    /\ \E p \in Callers :
           pc[p] = "done" /\ call[p].cmd \in {"govee_get_device", "govee_get_all_devices"}

\* the elements of the list
Elements(list) == {list[i] : i \in 1..Len(list)}

\* C26: a discover call commits each device to the registry before its next
\* recv_from: while it waits for a datagram the registry holds, for every id
\* of its list, the last device of the list with that id, unless a clear or
\* the store of another call intervened; so a govee_get_device of another
\* caller that returns during the window returns the device of an id the
\* call has collected (no clear since).  Every entry a store of the call
\* adds is a device that is in its list already.  A clear during the window
\* empties the registry and leaves the list of the call alone, the call
\* returns its whole list, and the devices it receives after the clear are
\* stored again.
C26_CommitPerDatagram ==
    /\ [](\A p \in Callers :
            (DiscoverCall(p) /\ pc[p] = "recv_from" /\ ~cleared[p] /\ ~foreign[p]) =>
                RegistryHoldsLast(devices[p]))
    /\ [](\A p, q \in Callers :
            (/\ DiscoverCall(p) /\ pc[p] = "recv_from" /\ ~cleared[p]
             /\ call[q].cmd = "govee_get_device" /\ pc[q] = "done"
             /\ \E d \in Elements(devices[p]) : d.id = call[q].device_id) =>
                /\ IsSome(result[q].v)
                /\ result[q].v.v.id = call[q].device_id
                /\ ~foreign[p] => result[q].v.v = LastWithId(devices[p], call[q].device_id))
    /\ [][\A p \in Callers :
            Inserts(p) =>
                /\ \A e \in BagToSet(state_devices') :
                       ~BagIn(e, state_devices) => e.value \in Elements(devices[p])
                /\ HashMapGet(state_devices', Device(p).id) = Some(Device(p))]_vars
    /\ [][\A p, q \in Callers :
            (Clears(q) /\ Discovering(p)) =>
                (state_devices' = EmptyBag /\ devices'[p] = devices[p])]_vars
    /\ [](\A p \in Callers :
            (DiscoverCall(p) /\ ReturnsOk(p)) => result[p].v.v = devices[p])

\* a govee_get_device of another caller returns the device a discover call
\* has parsed, 1 s into a window of 2 s that has not ended
C26_Witness ==
    \E p, q \in Callers :
        /\ p # q /\ DiscoverCall(p) /\ pc[p] = "recv_from"
        /\ call[p].timeout = 2000 /\ elapsed[p] = 1000
        /\ Len(devices[p]) = 1 /\ ~cleared[p] /\ ~foreign[p]
        /\ call[q].cmd = "govee_get_device" /\ pc[q] = "done"
        /\ result[q].v = Some(devices[p][1])

\* a discover call returns two devices after a clear that ran between their
\* stores: the registry holds the second only
C26_ReturnsClearedDevice ==
    \E p \in Callers :
        /\ DiscoverCall(p) /\ ReturnsOk(p) /\ cleared[p] /\ ~foreign[p]
        /\ Len(result[p].v.v) = 2
        /\ result[p].v.v[1].id # result[p].v.v[2].id
        /\ state_devices = SetToBag({Entry(result[p].v.v[2].id, result[p].v.v[2])})

(***************************************************************************)
(* Properties of the code verifier, in VerifierSpec.                       *)
(***************************************************************************)
Stores == {i \in 1..Len(calls) : calls[i].cmd = "store_code_verifier"}
Gets == {i \in 1..Len(calls) : calls[i].cmd = "get_code_verifier"}
\* the stores before the call i that no get before i has followed
Unread(i) ==
    {j \in Stores : j < i /\ \A k \in Gets : ~(j < k /\ k < i)}
\* the last of them
LastUnread(i) == CHOOSE j \in Unread(i) : \A k \in Unread(i) : k <= j
\* the gets that returned the value
GetsOf(verifier) == {i \in Gets : calls[i].result.ok /\ calls[i].result.v = verifier}
\* the stores of the value
StoresOf(verifier) == {j \in Stores : calls[j].arg.v = verifier}

\* C27: over every sequence of calls of store_code_verifier and
\* get_code_verifier: a store returns Ok; a get returns the value of the
\* last store when there was a store since the previous get (of two stores
\* without a get between them the second replaces the first), and fails with
\* "No code verifier found" when there was none; so a value is returned by
\* no more gets than stores stored it, a value stored once by at most one;
\* and the value held is the one the next get returns.
C27_VerifierOneTimeUse ==
    /\ \A j \in Stores : calls[j].result.ok
    /\ \A i \in Gets :
           IF Unread(i) # {}
           THEN calls[i].result = Ok(calls[LastUnread(i)].arg.v)
           ELSE calls[i].result = Err("No code verifier found")
    /\ \A verifier \in CodeVerifiers :
           Cardinality(GetsOf(verifier)) <= Cardinality(StoresOf(verifier))
    /\ code_verifier =
           IF Unread(Len(calls) + 1) # {}
           THEN Some(calls[LastUnread(Len(calls) + 1)].arg.v)
           ELSE None

\* two values were stored, the get after them returned the second and the
\* get after that failed
C27_Witness ==
    /\ Len(calls) = 4
    /\ calls[1] = Called("store_code_verifier", Some("verifier-1"), Ok(Unit))
    /\ calls[2] = Called("store_code_verifier", Some("verifier-2"), Ok(Unit))
    /\ calls[3].cmd = "get_code_verifier" /\ calls[3].result = Ok("verifier-2")
    /\ calls[4].cmd = "get_code_verifier" /\ ~calls[4].result.ok
    /\ calls[4].result.err = "No code verifier found"

(***************************************************************************)
(* Properties of the token store, in AuthSpec.                             *)
(***************************************************************************)
\* C28, as claimed: after logout has returned and until store_spotify_token
\* is called, a get_spotify_token returns no token and an is_authenticated
\* returns false.
C28_LogoutClearsTokens ==
    logged_out =>
        /\ returned.cmd = "get_spotify_token" => returned.result = Ok(None)
        /\ returned.cmd = "is_authenticated" => returned.result = Ok(FALSE)

\* after a logout, and no store_spotify_token since, get_spotify_token
\* returns a token
C28_TokenAfterLogout ==
    /\ logged_out
    /\ returned.cmd = "get_spotify_token"
    /\ IsSome(returned.result.v)

\* the token a call finds: the one in memory, and when there is none the
\* one that can be loaded, from the keyring first
Loadable ==
    IF keyring_available /\ IsSome(keyring) /\ keyring.v.json THEN Some(keyring.v.value)
    ELSE IF IsSome(file) /\ file.v.json THEN Some(file.v.value)
    ELSE None
Held == IF IsSome(token) THEN token ELSE Loadable
\* the token is unexpired or carries a refresh token
Usable(tok) == now < tok.expires_at \/ IsSome(tok.refresh_token)

\* the step is a call of the command
IsAuthenticatedStep ==
    returned'.cmd = "is_authenticated" /\ (returned' # returned \/ token' # token)
GetSpotifyTokenStep ==
    returned'.cmd = "get_spotify_token" /\ (returned' # returned \/ token' # token)

\* C29: in every state of the token store and at every clock value
\* get_spotify_token returns Ok, and is_authenticated returns Ok(true)
\* exactly when get_spotify_token returns a token; that is exactly when the
\* token held (the one in memory, else the one loaded from the keyring or
\* the file) is unexpired or carries a refresh token, and the token returned
\* is that one; for an expired token without a refresh token
\* is_authenticated returns Ok(false) and get_spotify_token Ok(None).  A
\* call of either command returns in agreement with what the other returns
\* in the state in which it is called.
C29_AuthAgreesWithToken ==
    /\ [](LET g == GetSpotifyTokenReturns
              a == IsAuthenticatedReturns
          IN  /\ g.ok
              /\ (a.ok /\ a.v) <=> IsSome(g.v)
              /\ IsSome(g.v) <=> (IsSome(Held) /\ Usable(Held.v))
              /\ IsSome(g.v) => g.v = Held
              /\ (IsSome(Held) /\ ~Usable(Held.v)) =>
                     (a.ok /\ ~a.v /\ g.v = None))
    /\ [][IsAuthenticatedStep =>
            ((returned'.result.ok /\ returned'.result.v)
                <=> IsSome(GetSpotifyTokenReturns.v))]_vars
    /\ [][GetSpotifyTokenStep =>
            (IsSome(returned'.result.v)
                <=> (IsAuthenticatedReturns.ok /\ IsAuthenticatedReturns.v))]_vars

\* is_authenticated has returned Ok(true) for a token that is expired and
\* carries a refresh token, and get_spotify_token returns that token
C29_Witness ==
    /\ returned.cmd = "is_authenticated"
    /\ returned.result.ok /\ returned.result.v
    /\ IsSome(token) /\ now >= token.v.expires_at /\ IsSome(token.v.refresh_token)
    /\ GetSpotifyTokenReturns = Ok(token)

====
